---- MODULE Spec2Model ----
(***************************************************************************)
(* Model of the git import pipeline of                                     *)
(* eden/mononoke/git/import_tools/src/lib.rs (gitimport_acc).              *)
(*                                                                         *)
(* The pipeline is one future made of stream combinators                   *)
(*   list_commits -> try_filter_map -> map_ok -> try_buffered(C)           *)
(*     -> and_then -> chunks(C) -> map(collect) -> try_for_each            *)
(* polled by a single task, plus one spawned task per commit that left the *)
(* resume filter (extraction + file upload).  The single task is modelled  *)
(* by pc; the spawned tasks by task[c]; they interleave freely.            *)
(***************************************************************************)
EXTENDS Integers, Sequences, FiniteSets, TLC

\* ------------------------------------------------------------- bounds
NumCommits == 3
MaxConcurrency == 2
MaxFail == 2

\* ------------------------------------------------------------- ids
Commits == 1..NumCommits
\* The one foreign id that target.get_roots() knows.
Root == NumCommits + 1
\* "no target id" (Option::None)
NoId == 0
\* The ChangesetId the target store derives for a foreign commit.
GenId(c) == 100 + c

\* The ChangesetId the target store already holds for commit c when the run
\* starts, if it holds one.
PriorId(c) == 200 + c

Ops == {"check", "extract", "upload_file", "read_tree", "upload_tree",
        "upload_commit", "generate"}

VARIABLES
    commits,      \* the sequence target.list_commits() yields
    parents,      \* metadata.parents of every commit (a sequence of ids)
    concurrency,  \* prefs.concurrency
    dry_run,      \* prefs.dry_run
    roots,        \* target.get_roots()
    imported,     \* target store: foreign commit -> ChangesetId or NoId
    files,        \* target store: commits whose upload_file was applied
    objects,      \* target store: raw objects applied by upload_object
    minted,       \* commits whose generate_changeset returned Ok
    batches,      \* the batches finalize_batch accepted, in order
    acc,          \* GitimportAccumulator.inner, as a sequence of <<oid, id>>
    next,         \* index of the next item of list_commits
    queue,        \* try_buffered's in_progress_queue (FuturesOrdered)
    task,         \* state of the spawned extraction task of each commit
    chunk,        \* the buffer of chunks(C); the batch while pc = "batch"
    pc,           \* where the pipeline future is suspended
    cur,          \* the commit in the and_then closure (0: none)
    inFin,        \* the commits whose and_then closure has begun, not ended
    inflight,     \* the batches whose finalize_batch task has not returned
    checking,     \* the ids whose check_commit_uploaded call has not returned
    bonsai_parents, \* the parent ids the finalize closure of a commit resolved
    dryArgs,      \* history: the dry_run values passed, with their calls
    arrived,      \* history: the items chunks received, in order
    result,       \* what gitimport_acc returned: "none", "ok" or an error
    fails,        \* number of collaborator failures so far
    calls,        \* calls[c][op]: collaborator calls issued for commit c
    failed,       \* failed[c]: stage at which commit c failed, or "none"
    submitted,    \* history: ids pushed into try_buffered, in order
    delivered,    \* history: ids whose result left try_buffered, in order
    known,        \* history: known[c] = ids resolvable when c's finalize ran
    batchCalls,   \* history: every batch finalize_batch was called with
    probe,        \* history: probe[c] = id check_commit_uploaded returned
    finished,     \* history: the spawned tasks in the order they completed
    run,          \* 1 in the first run, 2 in a re-run on the same store
    firstMap,     \* the mapping the first run returned, once re-run
    shadow,       \* accumulator on its own: the id last inserted for each oid
    overwrote,    \* accumulator on its own: an insert found its key present
    gitObjects,   \* read_git_refs: what reader.get_object returns for each oid
    lines,        \* read_git_refs: the lines git for-each-ref printed
    nextLine,     \* read_git_refs: index of the line next_line() yields next
    ref_oid,      \* read_git_refs: the local oid of the peeling loop
    git_ref,      \* read_git_refs: the local git_ref of the peeling loop
    refs,         \* read_git_refs: the local BTreeMap, as a set of pairs
    rpc,          \* read_git_refs: where the call is suspended
    turn,         \* read_git_refs: parity of the get_object calls made
    changes,      \* find_file_changes: the items of the diff stream
    fnext,        \* find_file_changes: index of the next item of the stream
    ftask,        \* find_file_changes: state of the task spawned for an item
    fmap,         \* find_file_changes: the map try_collect has built so far
    fpc,          \* find_file_changes: "run", or how the call returned
    fcalls,       \* find_file_changes: calls made for each item of the stream
    s1,           \* strip_common_prefix_and_suffix: the first string
    s2,           \* strip_common_prefix_and_suffix: the second string
    stripped,     \* strip_common_prefix_and_suffix: what the call returned
    spc,          \* strip_common_prefix_and_suffix: "call", "done" or "idle"
    added_files,  \* detect_batch_move: the paths of the added files
    deleted_files, \* detect_batch_move: the paths of the deleted files
    moved,        \* detect_batch_move: the pairs the call returned
    bpc           \* detect_batch_move: "call", "done" or "idle"

vars == <<commits, parents, concurrency, dry_run, roots, imported, files,
          objects, minted, batches, acc, next, queue, task, chunk, pc, cur,
          inFin, inflight, checking, bonsai_parents, dryArgs, arrived, result,
          fails, calls, failed, submitted,
          delivered, known,
          batchCalls, probe, finished, run, firstMap, shadow,
          overwrote, gitObjects, lines, nextLine, ref_oid, git_ref, refs, rpc,
          turn, changes, fnext, ftask, fmap, fpc, fcalls, s1, s2, stripped,
          spc, added_files, deleted_files, moved, bpc>>

\* The state of the parts that gitimport_acc does not touch.
refsVars == <<gitObjects, lines, nextLine, ref_oid, git_ref, refs, rpc,
              turn>>

filesVars == <<changes, fnext, ftask, fmap, fpc, fcalls>>

pureVars == <<s1, s2, stripped, spc, added_files, deleted_files, moved,
             bpc>>

aux == <<shadow, overwrote, refsVars, filesVars, pureVars>>

\* Bounds of the read_git_refs model.
NumObjects == 3
NumRefs == 2

Oids == 1..NumObjects

Kinds == {"commit", "tree", "blob", "tag"}

\* GitRef::new(name)
NewGitRef(n) == [name |-> n, maybe_tag_id |-> NoId]

\* No read_git_refs call is under way.
NoRefsCall ==
    /\ gitObjects = [o \in Oids |-> [kind |-> "commit", target |-> NoId]]
    /\ lines = << >>
    /\ nextLine = 1
    /\ ref_oid = NoId
    /\ git_ref = NewGitRef(0)
    /\ refs = {}
    /\ rpc = "idle"
    /\ turn = 0

\* Bound of the find_file_changes model: the length of the diff stream and
\* the number of paths.
NumPaths == 2

Paths == 1..NumPaths

FileOps == {"get_object", "upload_file"}

\* No find_file_changes call is under way.
\* No call of the pure functions of rename_finders.rs is modelled.
NoPureCall ==
    /\ s1 = << >>
    /\ s2 = << >>
    /\ stripped = << >>
    /\ spc = "idle"
    /\ added_files = << >>
    /\ deleted_files = << >>
    /\ moved = << >>
    /\ bpc = "idle"

NoFilesCall ==
    /\ changes = << >>
    /\ fnext = 1
    /\ ftask = [i \in Paths |-> "idle"]
    /\ fmap = {}
    /\ fpc = "idle"
    /\ fcalls = [i \in Paths |-> [o \in FileOps |-> 0]]

\* ------------------------------------------------------------- helpers
Range(s) == {s[i] : i \in 1..Len(s)}

SeqsNoDup(S, n) ==
    {s \in UNION {[1..k -> S] : k \in 0..n} :
        \A i, j \in 1..Len(s) : i # j => s[i] # s[j]}

\* ------------------------------------------------------------- accumulator
\* GitimportAccumulator: LinkedHashMap<ObjectId, ChangesetId>
AccKeys(a) == {a[i][1] : i \in 1..Len(a)}

AccGet(a, oid) ==
    IF oid \in AccKeys(a)
    THEN (CHOOSE i \in 1..Len(a) : a[i][1] = oid)
    ELSE 0

\* get(oid): the recorded id or NoId
Get(a, oid) == IF oid \in AccKeys(a) THEN a[AccGet(a, oid)][2] ELSE NoId

\* Variant: insert adds an entry whether or not the key is present.
InsertDup(a, oid, id) == Append(a, <<oid, id>>)

\* insert(oid, id): LinkedHashMap::insert updates the value of a present
\* key and re-attaches its node at the back of the list.
Insert(a, oid, id) ==
    Append(SelectSeq(a, LAMBDA e : e[1] # oid), <<oid, id>>)

AccLen(a) == Len(a)

AccMap(a) == [k \in AccKeys(a) |-> Get(a, k)]

\* ------------------------------------------------------------- target store
\* check_commit_uploaded: the resume probe of the target store
CheckCommitUploaded(imp, oid) == imp[oid]

\* finalize_batch: unless dry_run, the store records every commit of the
\* batch as imported under the id of its changeset.
StoreAfterBatch(imp, b, dry) ==
    [c \in Commits |-> IF ~dry /\ c \in Range(b) THEN GenId(c) ELSE imp[c]]

\* ------------------------------------------------------------- results
NoResult == [status |-> "none", c |-> 0, stage |-> "none"]
OkResult == [status |-> "ok", c |-> 0, stage |-> "none"]
Err(c, stage) == [status |-> "err", c |-> c, stage |-> stage]

\* An item of the stream after and_then: Result<(int_cs, git_sha1), Error>
OkItem(c) == [ok |-> TRUE, c |-> c, stage |-> "ok"]
ErrItem(c, stage) == [ok |-> FALSE, c |-> c, stage |-> stage]

Done == {"ok", "err"}

\* ------------------------------------------------------------- initial state
ParentChoices(c, n) ==
    IF c > n THEN {<< >>}
    ELSE {<< >>} \cup {<<p>> : p \in (Commits \cup {Root}) \ {c}}

Init ==
    /\ \E n \in 0..NumCommits :
          /\ commits = [i \in 1..n |-> i]
          /\ \E ps \in [Commits -> SeqsNoDup(Commits \cup {Root}, 1)] :
                /\ \A c \in Commits : ps[c] \in ParentChoices(c, n)
                /\ parents = ps
          /\ \E S \in SUBSET (1..n) :
                imported = [c \in Commits |-> IF c \in S THEN PriorId(c) ELSE NoId]
    /\ concurrency \in 1..MaxConcurrency
    /\ dry_run \in BOOLEAN
    /\ roots = [r \in {Root} |-> GenId(Root)]
    /\ files = {}
    /\ objects = {}
    /\ minted = {}
    /\ batches = << >>
    /\ acc = << >>
    /\ next = 0
    /\ queue = << >>
    /\ task = [c \in Commits |-> "idle"]
    /\ chunk = << >>
    /\ pc = "start"
    /\ cur = 0
    /\ inFin = {}
    /\ inflight = << >>
    /\ checking = {}
    /\ bonsai_parents = [c \in Commits |-> << >>]
    /\ dryArgs = {}
    /\ arrived = << >>
    /\ result = NoResult
    /\ fails = 0
    /\ calls = [c \in Commits |-> [o \in Ops |-> 0]]
    /\ failed = [c \in Commits |-> "none"]
    /\ submitted = << >>
    /\ delivered = << >>
    /\ known = [c \in Commits |-> {}]
    /\ batchCalls = << >>
    /\ probe = [c \in Commits |-> NoId]
    /\ finished = << >>
    /\ run = 1
    /\ firstMap = << >>
    /\ shadow = [c \in Commits |-> NoId]
    /\ overwrote = FALSE
    /\ NoRefsCall
    /\ NoFilesCall
    /\ NoPureCall

\* ------------------------------------------------------------- stream stages
Call(c, op) == calls' = [calls EXCEPT ![c][op] = @ + 1]

CanFail == fails < MaxFail

\* Variant: the fill loop takes one future more than the limit.
CanFillOver == Len(queue) <= concurrency /\ next <= Len(commits)

\* try_buffered(C): the fill loop polls the resume filter while the queue has
\* room and list_commits has items left.
CanFill == Len(queue) < concurrency /\ next <= Len(commits)

\* Variant: the closure hands every id on, hit or not.
PassesFilterAll(id) == TRUE

\* try_filter_map closure: Ok(None) on a hit, Ok(Some(oid)) otherwise.
PassesFilter(id) == id = NoId

\* Variant: outputs are yielded as they complete (FuturesUnordered).
ReadyIndexAny(q, t) == {i \in 1..Len(q) : t[q[i]] \in Done}

\* FuturesOrdered: only the oldest future's output can be yielded.
ReadyIndex(q, t) == IF q # << >> /\ t[q[1]] \in Done THEN {1} ELSE {}

RemoveAt(q, i) == [j \in 1..(Len(q) - 1) |-> IF j < i THEN q[j] ELSE q[j + 1]]

\* Variant: a parent found nowhere is dropped instead of failing the lookup.
ResolveParentsSkip(ps, r, a) ==
    [ok  |-> TRUE,
     ids |-> [i \in 1..Len(ps) |->
                IF ps[i] \in DOMAIN r THEN r[ps[i]] ELSE Get(a, ps[i])]]

\* roots.get(p).or_else(|| acc.get(p)).ok_or_else(..) collected into a Result
\* Variant: the accumulator is consulted before the roots.
ResolveParentsAccFirst(ps, r, a) ==
    [ok  |-> \A i \in 1..Len(ps) : ps[i] \in (DOMAIN r) \cup AccKeys(a),
     ids |-> [i \in 1..Len(ps) |->
                IF ps[i] \in AccKeys(a) THEN Get(a, ps[i])
                ELSE IF ps[i] \in DOMAIN r THEN r[ps[i]] ELSE NoId]]

ResolveParents(ps, r, a) ==
    [ok  |-> \A i \in 1..Len(ps) : ps[i] \in (DOMAIN r) \cup AccKeys(a),
     ids |-> [i \in 1..Len(ps) |->
                IF ps[i] \in DOMAIN r THEN r[ps[i]] ELSE Get(a, ps[i])]]

\* Variant: the chunk is taken as Ok whatever its items are.
CollectChunkIgnore(v) == OkResult

\* v.into_iter().collect::<Result<Vec<_>, Error>>(): the first Err, or Ok
\* Variant: the collected result is the last error of the batch.
CollectChunkLast(v) ==
    IF \E i \in 1..Len(v) : ~v[i].ok
    THEN LET i == CHOOSE i \in 1..Len(v) :
                      ~v[i].ok /\ \A j \in (i + 1)..Len(v) : v[j].ok
         IN  Err(v[i].c, v[i].stage)
    ELSE OkResult

CollectChunk(v) ==
    IF \E i \in 1..Len(v) : ~v[i].ok
    THEN LET i == CHOOSE i \in 1..Len(v) :
                      ~v[i].ok /\ \A j \in 1..(i - 1) : v[j].ok
         IN  Err(v[i].c, v[i].stage)
    ELSE OkResult

\* Variant: the buffer is handed on one item late.
ChunkFullLate(v, cap) == Len(v) > cap

\* chunks(C): the buffer is handed on once it holds C items.
ChunkFull(v, cap) == Len(v) >= cap

\* A chunk leaves chunks(C): collected, then try_for_each either starts
\* finalize_batch on it or ends the run with its first error.
Emit(v) ==
    IF CollectChunk(v).status = "ok"
    THEN /\ chunk' = v
         /\ pc' = "batch"
         /\ result' = result
    ELSE /\ chunk' = << >>
         /\ pc' = "done"
         /\ result' = CollectChunk(v)

\* An item (Ok or Err) reaches chunks(C).
Push(item) ==
    LET v == Append(chunk, item)
    IN  /\ arrived' = Append(arrived, item)
        /\ IF ChunkFull(v, concurrency)
           THEN Emit(v)
           ELSE /\ chunk' = v
                /\ pc' = "fill"
                /\ result' = result

\* ------------------------------------------------------------- actions
config == <<commits, parents, concurrency, dry_run, roots, run, firstMap,
            aux>>

\* Variant: the count is not looked at.
NothingToImportNever(n) == FALSE

\* 0 == nb_commits_to_import
NothingToImport(n) == n = 0

\* get_nb_commits: nothing to import returns an empty accumulator at once;
\* otherwise list_commits is called (next = 0: it was not called yet).
Start ==
    /\ pc = "start"
    /\ IF NothingToImport(Len(commits))
       THEN pc' = "done" /\ result' = OkResult /\ next' = next
       ELSE pc' = "fill" /\ result' = result /\ next' = 1
    /\ UNCHANGED <<config, imported, files, objects, minted, batches, acc,
                   queue, task, chunk, cur, fails, calls, failed,
                   submitted, delivered, known, batchCalls,
                   probe, finished, inFin, inflight, checking,
                   bonsai_parents, dryArgs,
                   arrived>>

\* Variant: the next id is taken while a check is still pending.
FilterIdleAlways == TRUE

\* try_filter_map holds at most one pending closure future and polls
\* list_commits for the next id only when it holds none.
FilterIdle == checking = {}

\* Resume filter: the closure is called for the next id of list_commits and
\* calls check_commit_uploaded.
CheckStart ==
    /\ pc = "fill"
    /\ CanFill
    /\ FilterIdle
    /\ Call(commits[next], "check")
    /\ checking' = checking \cup {commits[next]}
    /\ next' = next + 1
    /\ UNCHANGED <<config, imported, files, objects, minted, batches, acc,
                   queue, task, chunk, pc, cur, result, fails, failed,
                   submitted, delivered, known, batchCalls, probe, finished,
                   inFin, inflight,
                   bonsai_parents, dryArgs,
                   arrived>>

\* Resume filter: check_commit_uploaded returned Ok.
CheckOk ==
    /\ pc = "fill"
    /\ \E oid \in checking :
          LET id == CheckCommitUploaded(imported, oid)
          IN  /\ checking' = checking \ {oid}
              /\ acc' = IF id # NoId THEN Insert(acc, oid, id) ELSE acc
              /\ IF PassesFilter(id)
                 THEN /\ queue' = Append(queue, oid)
                      /\ task' = [task EXCEPT ![oid] = "spawned"]
                      /\ submitted' = Append(submitted, oid)
                 ELSE UNCHANGED <<queue, task, submitted>>
              /\ probe' = [probe EXCEPT ![oid] = id]
    /\ UNCHANGED <<config, imported, files, objects, minted, batches, chunk,
                   pc, cur, result, fails, calls, failed, delivered, known,
                   batchCalls, next, finished, inFin, inflight,
                   bonsai_parents, dryArgs,
                   arrived>>

\* Resume filter: check_commit_uploaded returned Err; try_buffered hands the
\* error on at once, ahead of the results still in its queue.
CheckFail ==
    /\ pc = "fill"
    /\ CanFail
    /\ \E oid \in checking :
          /\ checking' = checking \ {oid}
          /\ failed' = [failed EXCEPT ![oid] = "check"]
          /\ Push(ErrItem(oid, "check"))
    /\ fails' = fails + 1
    /\ UNCHANGED <<config, imported, files, objects, minted, batches, acc,
                   queue, task, cur, submitted, delivered, known, batchCalls,
                   probe, finished, inFin, inflight, calls, next,
                   bonsai_parents, dryArgs>>

\* Spawned task: ExtractedCommit::new
TaskExtractOk(c) ==
    /\ task[c] = "spawned"
    /\ Call(c, "extract")
    /\ task' = [task EXCEPT ![c] = "extracted"]
    /\ UNCHANGED <<config, imported, files, objects, minted, batches, acc,
                   next, queue, chunk, pc, cur, result, fails, failed,
                   submitted, delivered, known, batchCalls,
                   probe, finished, inFin, inflight, checking,
                   bonsai_parents, dryArgs,
                   arrived>>

TaskExtractFail(c) ==
    /\ task[c] = "spawned"
    /\ CanFail
    /\ Call(c, "extract")
    /\ task' = [task EXCEPT ![c] = "err"]
    /\ failed' = [failed EXCEPT ![c] = "extract"]
    /\ fails' = fails + 1
    /\ finished' = Append(finished, c)
    /\ UNCHANGED <<config, imported, files, objects, minted, batches, acc,
                   next, queue, chunk, pc, cur, result, submitted, delivered,
                   known, batchCalls,
                   probe, inFin, inflight, checking,
                   bonsai_parents, dryArgs,
                   arrived>>

\* Spawned task: find_file_changes (blob read, then upload_file)
TaskUploadFileOk(c) ==
    /\ task[c] = "extracted"
    /\ Call(c, "upload_file")
    /\ files' = files \cup {c}
    /\ task' = [task EXCEPT ![c] = "ok"]
    /\ finished' = Append(finished, c)
    /\ UNCHANGED <<config, imported, objects, minted, batches, acc, next,
                   queue, chunk, pc, cur, result, fails, failed, submitted,
                   delivered, known, batchCalls,
                   probe, inFin, inflight, checking,
                   bonsai_parents, dryArgs,
                   arrived>>

TaskUploadFileFail(c) ==
    /\ task[c] = "extracted"
    /\ CanFail
    /\ Call(c, "upload_file")
    /\ task' = [task EXCEPT ![c] = "err"]
    /\ failed' = [failed EXCEPT ![c] = "upload_file"]
    /\ fails' = fails + 1
    /\ finished' = Append(finished, c)
    /\ UNCHANGED <<config, imported, files, objects, minted, batches, acc,
                   next, queue, chunk, pc, cur, result, submitted, delivered,
                   known, batchCalls,
                   probe, inFin, inflight, checking,
                   bonsai_parents, dryArgs,
                   arrived>>

FinalizePcs == {"parents", "read_tree", "upload_tree", "upload_commit",
                "generate"}

\* Variant: the stream is polled for the next result while a closure runs.
AndThenIdleOrBusy == pc = "fill" \/ pc \in FinalizePcs

\* and_then polls the stream below it only while it holds no pending closure.
\* Variant: the stream is polled while a finalize_batch call is awaited.
AndThenIdleDuringBatch == pc \in {"fill", "batch_wait"}

AndThenIdle == pc = "fill"

\* try_buffered yields the next result; and_then runs its closure on Ok and
\* passes Err on to chunks.
\* Variant: the buffer hands on a result only while it is full.
FillLoopLeftFull == Len(queue) >= concurrency

\* try_buffered has left its fill loop: the buffer is full, the upstream
\* is exhausted or the upstream is pending on a check.
FillLoopLeft == ~CanFill \/ checking # {}

\* try_buffered yields the result at the head of its queue to and_then.
Deliver ==
    /\ AndThenIdle
    /\ FillLoopLeft
    /\ \E i \in ReadyIndex(queue, task) :
          LET c == queue[i]
          IN  /\ queue' = RemoveAt(queue, i)
              /\ delivered' = Append(delivered, c)
              /\ IF task[c] = "ok"
                 THEN /\ cur' = c
                      /\ inFin' = inFin \cup {c}
                      /\ pc' = "parents"
                      /\ UNCHANGED <<chunk, result, arrived>>
                 ELSE /\ cur' = cur
                      /\ inFin' = inFin
                      /\ Push(ErrItem(c, failed[c]))
    /\ UNCHANGED <<config, imported, files, objects, minted, batches, acc,
                   next, task, fails, calls, failed, submitted, known,
                   batchCalls,
                   probe, finished, inflight, checking,
                   bonsai_parents, dryArgs>>

\* The stream is exhausted: chunks hands on what it has buffered, if anything.
StreamEnd ==
    /\ pc = "fill"
    /\ ~CanFill
    /\ checking = {}
    /\ queue = << >>
    /\ IF chunk = << >>
       THEN pc' = "done" /\ result' = OkResult /\ chunk' = chunk
       ELSE Emit(chunk)
    /\ UNCHANGED <<config, imported, files, objects, minted, batches, acc,
                   next, queue, task, cur, fails, calls, failed, submitted,
                   delivered, known, batchCalls,
                   probe, finished, inFin, inflight, checking,
                   bonsai_parents, dryArgs,
                   arrived>>

\* let dry_run = prefs.dry_run: the value the closures capture.
DryRunLocal == dry_run

\* A call that takes the dry_run flag is made.
PassDryRun(d, op) == d \cup {[call |-> op, dry_run |-> DryRunLocal]}

\* Variant: generate_changeset is called right after the tree was uploaded.
StepAfterSkip(op) ==
    CASE op = "parents" -> "read_tree"
      [] op = "read_tree" -> "upload_tree"
      [] op = "upload_tree" -> "generate"
      [] op = "upload_commit" -> "generate"

\* The awaits of the finalize closure, in the order of its code.
StepAfter(op) ==
    CASE op = "parents" -> "read_tree"
      [] op = "read_tree" -> "upload_tree"
      [] op = "upload_tree" -> "upload_commit"
      [] op = "upload_commit" -> "generate"

\* Finalize: parent lookup in roots, then in the accumulator.
LookupParents ==
    /\ pc = "parents"
    /\ known' = [known EXCEPT ![cur] = (DOMAIN roots) \cup AccKeys(acc)]
    /\ IF ResolveParents(parents[cur], roots, acc).ok
       THEN /\ pc' = StepAfter("parents")
            /\ UNCHANGED <<chunk, result, cur, failed, arrived>>
       ELSE /\ failed' = [failed EXCEPT ![cur] = "parents"]
            /\ Push(ErrItem(cur, "parents"))
            /\ cur' = 0
    /\ inFin' = IF ResolveParents(parents[cur], roots, acc).ok
                THEN inFin ELSE inFin \ {cur}
    /\ bonsai_parents' =
          IF ResolveParents(parents[cur], roots, acc).ok
          THEN [bonsai_parents EXCEPT
                   ![cur] = ResolveParents(parents[cur], roots, acc).ids]
          ELSE bonsai_parents
    /\ UNCHANGED <<config, imported, files, objects, minted, batches, acc,
                   next, queue, task, fails, calls, submitted, delivered,
                   batchCalls,
                   probe, finished, inflight, checking, dryArgs>>

\* A step of the finalize closure that succeeds and moves on.
FinStepOk(at, op, to) ==
    /\ pc = at
    /\ Call(cur, op)
    /\ pc' = to
    /\ UNCHANGED <<config, imported, files, minted, batches, acc, next, queue,
                   task, chunk, cur, result, fails, failed, submitted,
                   delivered, known, batchCalls,
                   probe, finished, inFin, inflight, checking,
                   bonsai_parents, dryArgs,
                   arrived>>

\* A step of the finalize closure that fails: the Err goes to chunks.
FinStepFail(at, op) ==
    /\ pc = at
    /\ CanFail
    /\ Call(cur, op)
    /\ failed' = [failed EXCEPT ![cur] = op]
    /\ fails' = fails + 1
    /\ Push(ErrItem(cur, op))
    /\ cur' = 0
    /\ inFin' = inFin \ {cur}
    /\ dryArgs' = IF op = "generate" THEN PassDryRun(dryArgs, op) ELSE dryArgs
    /\ UNCHANGED <<config, imported, files, objects, minted, batches, acc,
                   next, queue, task, submitted, delivered, known, batchCalls,
                   probe, finished, inflight, checking, bonsai_parents>>

ReadTreeOk ==
    /\ FinStepOk("read_tree", "read_tree", StepAfter("read_tree"))
    /\ UNCHANGED objects
ReadTreeFail == FinStepFail("read_tree", "read_tree")

UploadTreeOk ==
    /\ FinStepOk("upload_tree", "upload_tree", StepAfter("upload_tree"))
    /\ objects' = objects \cup {<<"tree", cur>>}
UploadTreeFail == FinStepFail("upload_tree", "upload_tree")

UploadCommitOk ==
    /\ FinStepOk("upload_commit", "upload_commit", StepAfter("upload_commit"))
    /\ objects' = objects \cup {<<"commit", cur>>}
UploadCommitFail == FinStepFail("upload_commit", "upload_commit")

\* generate_changeset returned Ok: record the mapping, emit the item.
GenerateOk ==
    /\ pc = "generate"
    /\ Call(cur, "generate")
    /\ minted' = minted \cup {cur}
    /\ acc' = Insert(acc, cur, GenId(cur))
    /\ Push(OkItem(cur))
    /\ cur' = 0
    /\ inFin' = inFin \ {cur}
    /\ dryArgs' = PassDryRun(dryArgs, "generate")
    /\ UNCHANGED <<config, imported, files, objects, batches, next, queue,
                   task, fails, failed, submitted, delivered, known,
                   batchCalls,
                   probe, finished, inflight, checking, bonsai_parents>>
GenerateFail == FinStepFail("generate", "generate")

BatchOf(v) == [i \in 1..Len(v) |-> v[i].c]

\* Variant: the batch task is started and not awaited.
AfterBatchStartDetached == "fill"

\* try_for_each awaits the future of one batch before it polls the stream
\* for the next.
AfterBatchStart == "batch_wait"

\* try_for_each: the collected chunk is handed to a spawned finalize_batch.
FinalizeBatchStart ==
    /\ pc = "batch"
    /\ batchCalls' = Append(batchCalls, BatchOf(chunk))
    /\ inflight' = Append(inflight, BatchOf(chunk))
    /\ chunk' = << >>
    /\ pc' = AfterBatchStart
    /\ dryArgs' = PassDryRun(dryArgs, "finalize_batch")
    /\ UNCHANGED <<config, imported, files, objects, minted, batches, acc,
                   next, queue, task, cur, result, fails, calls, failed,
                   submitted, delivered, known, probe, finished, inFin,
                   checking, bonsai_parents,
                   arrived>>

\* finalize_batch returned Ok: the stream is polled again.
FinalizeBatchOk ==
    /\ \E i \in 1..Len(inflight) :
          /\ batches' = Append(batches, inflight[i])
          /\ imported' = StoreAfterBatch(imported, inflight[i], DryRunLocal)
          /\ inflight' = RemoveAt(inflight, i)
    /\ pc' = IF pc = "batch_wait" THEN "fill" ELSE pc
    /\ UNCHANGED <<config, files, objects, minted, acc, next, queue, task,
                   chunk, cur, result, fails, calls, failed, submitted,
                   delivered, known, batchCalls, probe, finished, inFin, checking,
                   bonsai_parents, dryArgs,
                   arrived>>

\* finalize_batch returned Err: try_for_each returns it.
FinalizeBatchFail ==
    /\ CanFail
    /\ \E i \in 1..Len(inflight) : inflight' = RemoveAt(inflight, i)
    /\ fails' = fails + 1
    /\ pc' = IF pc = "batch_wait" THEN "done" ELSE pc
    /\ result' = IF pc = "batch_wait" THEN Err(0, "finalize_batch") ELSE result
    /\ UNCHANGED <<config, imported, files, objects, minted, batches, acc,
                   next, queue, task, chunk, cur, calls, failed, submitted,
                   delivered, known, batchCalls, probe, finished, inFin, checking,
                   bonsai_parents, dryArgs,
                   arrived>>

Next ==
    \/ Start
    \/ CheckStart
    \/ CheckOk
    \/ CheckFail
    \/ \E c \in Commits : TaskExtractOk(c)
    \/ \E c \in Commits : TaskExtractFail(c)
    \/ \E c \in Commits : TaskUploadFileOk(c)
    \/ \E c \in Commits : TaskUploadFileFail(c)
    \/ Deliver
    \/ StreamEnd
    \/ LookupParents
    \/ ReadTreeOk
    \/ ReadTreeFail
    \/ UploadTreeOk
    \/ UploadTreeFail
    \/ UploadCommitOk
    \/ UploadCommitFail
    \/ GenerateOk
    \/ GenerateFail
    \/ FinalizeBatchStart
    \/ FinalizeBatchOk
    \/ FinalizeBatchFail

Spec == Init /\ [][Next]_vars

\* A second gitimport_acc call on the same commit list, against the target
\* store as the first, successful, non-dry-run call left it.
Rerun ==
    /\ run = 1
    /\ pc = "done"
    /\ result.status = "ok"
    /\ ~dry_run
    /\ Len(commits) > 0
    /\ run' = 2
    /\ firstMap' = AccMap(acc)
    /\ acc' = << >>
    /\ next' = 0
    /\ queue' = << >>
    /\ task' = [c \in Commits |-> "idle"]
    /\ chunk' = << >>
    /\ pc' = "start"
    /\ cur' = 0
    /\ result' = NoResult
    /\ minted' = {}
    /\ calls' = [c \in Commits |-> [o \in Ops |-> 0]]
    /\ failed' = [c \in Commits |-> "none"]
    /\ submitted' = << >>
    /\ delivered' = << >>
    /\ known' = [c \in Commits |-> {}]
    /\ batchCalls' = << >>
    /\ probe' = [c \in Commits |-> NoId]
    /\ finished' = << >>
    /\ inFin' = {}
    /\ checking' = {}
    /\ bonsai_parents' = [c \in Commits |-> << >>]
    /\ dryArgs' = {}
    /\ arrived' = << >>
    /\ UNCHANGED <<commits, parents, concurrency, dry_run, roots, imported,
                   files, objects, batches, fails, inflight, aux>>

NextResume == Next \/ Rerun

SpecResume == Init /\ [][NextResume]_vars

\* ------------------------------------------- the accumulator on its own
\* No gitimport_acc call is under way.
NoRun ==
    /\ commits = << >>
    /\ parents = [c \in Commits |-> << >>]
    /\ imported = [c \in Commits |-> NoId]
    /\ concurrency = 1
    /\ dry_run = FALSE
    /\ roots = [r \in {Root} |-> GenId(Root)]
    /\ files = {}
    /\ objects = {}
    /\ minted = {}
    /\ batches = << >>
    /\ next = 0
    /\ queue = << >>
    /\ task = [c \in Commits |-> "idle"]
    /\ chunk = << >>
    /\ pc = "idle"
    /\ cur = 0
    /\ inFin = {}
    /\ inflight = << >>
    /\ checking = {}
    /\ bonsai_parents = [c \in Commits |-> << >>]
    /\ dryArgs = {}
    /\ arrived = << >>
    /\ result = NoResult
    /\ fails = 0
    /\ calls = [c \in Commits |-> [o \in Ops |-> 0]]
    /\ failed = [c \in Commits |-> "none"]
    /\ submitted = << >>
    /\ delivered = << >>
    /\ known = [c \in Commits |-> {}]
    /\ batchCalls = << >>
    /\ probe = [c \in Commits |-> NoId]
    /\ finished = << >>
    /\ run = 1
    /\ firstMap = << >>

pipeline == <<commits, parents, concurrency, dry_run, roots, imported, files,
              objects, minted, batches, next, queue, task, chunk, pc, cur,
              inFin, inflight, checking, bonsai_parents, dryArgs, arrived,
              result, fails, calls, failed,
              submitted,
              delivered, known, batchCalls, probe, finished, run, firstMap>>

\* The ChangesetIds handed to insert.
AccIds == {GenId(c) : c \in Commits}

\* GitimportAccumulator::new()
InitAcc ==
    /\ NoRun
    /\ acc = << >>
    /\ shadow = [c \in Commits |-> NoId]
    /\ overwrote = FALSE
    /\ NoRefsCall
    /\ NoFilesCall
    /\ NoPureCall

\* is_empty()
IsEmpty(a) == a = << >>

\* insert(oid, cs_id) on the accumulator
AccInsert(oid, id) ==
    /\ acc' = Insert(acc, oid, id)
    /\ shadow' = [shadow EXCEPT ![oid] = id]
    /\ overwrote' = (overwrote \/ oid \in AccKeys(acc))
    /\ UNCHANGED <<pipeline, refsVars, filesVars, pureVars>>

NextAcc == \E oid \in Commits : \E id \in AccIds : AccInsert(oid, id)

SpecAcc == InitAcc /\ [][NextAcc]_vars

\* ----------------------------------------------------------- read_git_refs
\* A line of "git for-each-ref --format=%(objectname) %(refname)": well
\* formed with the id of an object, without a space, or with a first field
\* that does not parse as an object id. The ref name of line i is i.
RefLines ==
    {[form |-> "ok", oid |-> o] : o \in Oids}
        \cup {[form |-> "nospace", oid |-> NoId],
              [form |-> "badoid", oid |-> NoId]}

\* What the object reader can hold for one id: only a tag has a target.
GitObjectChoices ==
    {[kind |-> k, target |-> NoId] : k \in Kinds \ {"tag"}}
        \cup {[kind |-> "tag", target |-> t] : t \in Oids}

InitRefs ==
    /\ NoRun
    /\ acc = << >>
    /\ shadow = [c \in Commits |-> NoId]
    /\ overwrote = FALSE
    /\ gitObjects \in [Oids -> GitObjectChoices]
    /\ lines \in UNION {[1..k -> RefLines] : k \in 0..NumRefs}
    /\ nextLine = 1
    /\ ref_oid = NoId
    /\ git_ref = NewGitRef(0)
    /\ refs = {}
    /\ rpc = "line"
    /\ turn = 0
    /\ NoFilesCall
    /\ NoPureCall

notRefs == <<pipeline, acc, shadow, overwrote, gitObjects, lines,
            filesVars, pureVars>>

\* BTreeMap::insert(key, value)
MapInsert(m, k, v) == {e \in m : e[1] # k} \cup {<<k, v>>}

\* Variant: every tag of the chain is taken as the tag of the ref.
PeelTagLast(r, o) == [r EXCEPT !.maybe_tag_id = o]

\* Object::Tag: the id of the tag is kept if none was kept before.
PeelTag(r, o) ==
    IF r.maybe_tag_id = NoId THEN [r EXCEPT !.maybe_tag_id = o] ELSE r

\* lines.next_line() yields a line: split_once(' '), oid_str.parse()
NextLine ==
    /\ rpc = "line"
    /\ nextLine <= Len(lines)
    /\ nextLine' = nextLine + 1
    /\ LET l == lines[nextLine]
       IN  CASE l.form = "nospace" ->
                  UNCHANGED <<ref_oid, git_ref, rpc>>
             [] l.form = "badoid" ->
                  /\ rpc' = "failed"
                  /\ UNCHANGED <<ref_oid, git_ref>>
             [] l.form = "ok" ->
                  /\ ref_oid' = l.oid
                  /\ git_ref' = NewGitRef(nextLine)
                  /\ rpc' = "loop"
    /\ UNCHANGED <<notRefs, refs, turn>>

\* lines.next_line() returns an error
NextLineFail ==
    /\ rpc = "line"
    /\ rpc' = "failed"
    /\ UNCHANGED <<notRefs, nextLine, ref_oid, git_ref, refs, turn>>

\* lines.next_line() yields None: Ok(refs)
EndOfLines ==
    /\ rpc = "line"
    /\ nextLine > Len(lines)
    /\ rpc' = "done"
    /\ UNCHANGED <<notRefs, nextLine, ref_oid, git_ref, refs, turn>>

\* Variant: a blob ends the loop as a tree does.
BlobArmBreak == "line"

\* Object::Blob: bail!
BlobArm == "failed"

\* Variant: a tree is recorded as a commit is.
TreeArmInsert(m, k, v) == MapInsert(m, k, v)

\* Object::Tree: break, the map is left as it is.
TreeArm(m, k, v) == m

\* One turn of the loop: reader.get_object(&oid) and the match on its kind
PeelStep ==
    /\ rpc = "loop"
    /\ LET object == gitObjects[ref_oid]
       IN  CASE object.kind = "tree" ->
                  /\ refs' = TreeArm(refs, git_ref, ref_oid)
                  /\ rpc' = "line"
                  /\ UNCHANGED <<ref_oid, git_ref>>
             [] object.kind = "blob" ->
                  /\ rpc' = BlobArm
                  /\ UNCHANGED <<ref_oid, git_ref, refs>>
             [] object.kind = "commit" ->
                  /\ refs' = MapInsert(refs, git_ref, ref_oid)
                  /\ rpc' = "line"
                  /\ UNCHANGED <<ref_oid, git_ref>>
             [] object.kind = "tag" ->
                  /\ git_ref' = PeelTag(git_ref, ref_oid)
                  /\ ref_oid' = object.target
                  /\ UNCHANGED <<refs, rpc>>
    /\ turn' = 1 - turn
    /\ UNCHANGED <<notRefs, nextLine>>

\* reader.get_object(&oid) returns an error
GetObjectFail ==
    /\ rpc = "loop"
    /\ rpc' = "failed"
    /\ UNCHANGED <<notRefs, nextLine, ref_oid, git_ref, refs, turn>>

NextRefs ==
    \/ NextLine
    \/ NextLineFail
    \/ EndOfLines
    \/ PeelStep
    \/ GetObjectFail

SpecRefs == InitRefs /\ [][NextRefs]_vars

\* read_git_refs under the scheduling of its future: while an awaited call
\* returns a value the function takes its next step; a call need not fail.
SpecRefsLive ==
    /\ InitRefs
    /\ [][NextRefs]_vars
    /\ WF_vars(NextLine)
    /\ WF_vars(EndOfLines)
    /\ WF_vars(PeelStep)

\* What read_git_refs returned: Ok(refs), or an Err, with which the local
\* map is dropped.
NoRefsResult == [status |-> "none", map |-> {}]

ReadGitRefsResult ==
    CASE rpc = "done" -> [status |-> "ok", map |-> refs]
      [] rpc = "failed" -> [status |-> "err", map |-> {}]
      [] OTHER -> NoRefsResult

\* -------------------------------------------------------- find_file_changes
\* try_buffer_unordered(100)
BufferLimit == 100

\* An item of the diff stream: a BonsaiDiffFileChange, or an error of
\* bonsai_diff.
DiffItems ==
    {[kind |-> k, path |-> p, leaf |-> o] :
        k \in {"changed", "reused"}, p \in Paths, o \in Oids}
        \cup {[kind |-> "deleted", path |-> p, leaf |-> NoId] : p \in Paths}
        \cup {[kind |-> "err", path |-> 0, leaf |-> NoId]}

\* U::deleted()
DeletedChange == [kind |-> "deleted", leaf |-> NoId]

\* The U::Change upload_file returns for a path and the blob it was given.
UploadFile(p, o) == [kind |-> "file", leaf |-> o]

InitFiles ==
    /\ NoRun
    /\ acc = << >>
    /\ shadow = [c \in Commits |-> NoId]
    /\ overwrote = FALSE
    /\ gitObjects \in [Oids -> {[kind |-> k, target |-> NoId] :
                                   k \in {"blob", "tree"}}]
    /\ lines = << >>
    /\ nextLine = 1
    /\ ref_oid = NoId
    /\ git_ref = NewGitRef(0)
    /\ refs = {}
    /\ rpc = "idle"
    /\ turn = 0
    /\ changes \in UNION {[1..k -> DiffItems] : k \in 0..NumPaths}
    /\ fnext = 1
    /\ ftask = [i \in Paths |-> "idle"]
    /\ fmap = {}
    /\ fpc = "run"
    /\ fcalls = [i \in Paths |-> [o \in FileOps |-> 0]]
    /\ NoPureCall

notFiles == <<pipeline, acc, shadow, overwrote, refsVars, changes,
             pureVars>>

\* The futures try_buffer_unordered holds.
InProgress == {i \in Paths : ftask[i] \in {"spawned", "read", "ok", "err"}}

FileCall(i, op) == fcalls' = [fcalls EXCEPT ![i][op] = @ + 1]

\* Changed and ChangedReusedId read the blob and upload it; Deleted does not.
NeedsUpload(k) == k \in {"changed", "reused"}

\* Variant: the result of a failed task is dropped and collection goes on.
AfterTaskErrSkip == "run"

\* try_collect returns the first Err it is handed.
AfterTaskErr == "err"

\* try_buffer_unordered polls the diff stream: an Err is returned at once, a
\* change becomes a future that spawns its task.
FilesPull ==
    /\ fpc = "run"
    /\ fnext <= Len(changes)
    /\ Cardinality(InProgress) < BufferLimit
    /\ fnext' = fnext + 1
    /\ IF changes[fnext].kind = "err"
       THEN /\ fpc' = "err"
            /\ ftask' = ftask
       ELSE /\ fpc' = fpc
            /\ ftask' = [ftask EXCEPT ![fnext] = "spawned"]
    /\ UNCHANGED <<notFiles, fmap, fcalls>>

\* Spawned task, Deleted(path): Ok((path, U::deleted()))
FileDeleted(i) ==
    /\ ftask[i] = "spawned"
    /\ ~NeedsUpload(changes[i].kind)
    /\ ftask' = [ftask EXCEPT ![i] = "ok"]
    /\ UNCHANGED <<notFiles, fnext, fmap, fpc, fcalls>>

\* Spawned task: reader.get_object(&oid) returned, try_into_blob
FileGetObjectOk(i) ==
    /\ ftask[i] = "spawned"
    /\ NeedsUpload(changes[i].kind)
    /\ FileCall(i, "get_object")
    /\ ftask' = [ftask EXCEPT ![i] =
                    IF changes[i].leaf \in Oids
                       /\ gitObjects[changes[i].leaf].kind = "blob"
                    THEN "read" ELSE "err"]
    /\ UNCHANGED <<notFiles, fnext, fmap, fpc>>

\* Spawned task: reader.get_object(&oid) returned an error
FileGetObjectFail(i) ==
    /\ ftask[i] = "spawned"
    /\ NeedsUpload(changes[i].kind)
    /\ FileCall(i, "get_object")
    /\ ftask' = [ftask EXCEPT ![i] = "err"]
    /\ UNCHANGED <<notFiles, fnext, fmap, fpc>>

\* Spawned task: uploader.upload_file returned Ok(change)
FileUploadOk(i) ==
    /\ ftask[i] = "read"
    /\ FileCall(i, "upload_file")
    /\ ftask' = [ftask EXCEPT ![i] = "ok"]
    /\ UNCHANGED <<notFiles, fnext, fmap, fpc>>

\* Spawned task: uploader.upload_file returned an error
FileUploadFail(i) ==
    /\ ftask[i] = "read"
    /\ FileCall(i, "upload_file")
    /\ ftask' = [ftask EXCEPT ![i] = "err"]
    /\ UNCHANGED <<notFiles, fnext, fmap, fpc>>

\* Variant: every task returns the change of an upload.
FileResultUploaded(i) ==
    <<changes[i].path, UploadFile(changes[i].path, changes[i].leaf)>>

\* The (path, change) a task that ended Ok returns.
FileResult(i) ==
    <<changes[i].path,
      IF changes[i].kind = "deleted"
      THEN DeletedChange
      ELSE UploadFile(changes[i].path, changes[i].leaf)>>

\* try_buffer_unordered yields the result of some completed task and
\* try_collect extends the map with it, or returns its error.
FilesCollect(i) ==
    /\ fpc = "run"
    /\ ftask[i] \in {"ok", "err"}
    /\ ftask' = [ftask EXCEPT ![i] =
                    IF ftask[i] = "ok" THEN "collected" ELSE "reported"]
    /\ IF ftask[i] = "ok"
       THEN /\ fmap' = MapInsert(fmap, FileResult(i)[1], FileResult(i)[2])
            /\ fpc' = fpc
       ELSE /\ fmap' = fmap
            /\ fpc' = AfterTaskErr
    /\ UNCHANGED <<notFiles, fnext, fcalls>>

\* The diff stream has ended and no future is left: Ok(map)
FilesEnd ==
    /\ fpc = "run"
    /\ fnext > Len(changes)
    /\ InProgress = {}
    /\ fpc' = "ok"
    /\ UNCHANGED <<notFiles, fnext, ftask, fmap, fcalls>>

NextFiles ==
    \/ FilesPull
    \/ FilesEnd
    \/ \E i \in Paths :
          \/ FileDeleted(i)
          \/ FileGetObjectOk(i)
          \/ FileGetObjectFail(i)
          \/ FileUploadOk(i)
          \/ FileUploadFail(i)
          \/ FilesCollect(i)

SpecFiles == InitFiles /\ [][NextFiles]_vars

\* What find_file_changes returned: Ok(map), or an Err and no map.
FindFileChangesResult ==
    CASE fpc = "ok" -> [status |-> "ok", map |-> fmap]
      [] fpc = "err" -> [status |-> "err", map |-> {}]
      [] OTHER -> [status |-> "none", map |-> {}]

\* ------------------------------- find_file_changes inside gitimport_acc
\* The run of gitimport_acc over one commit whose spawned task calls
\* find_file_changes on the diff stream of that commit.
FilesCommit == 1

InitFilesRun ==
    /\ commits = <<FilesCommit>>
    /\ \E ps \in ParentChoices(FilesCommit, 1) :
          parents = [c \in Commits |-> IF c = FilesCommit THEN ps ELSE << >>]
    /\ imported = [c \in Commits |-> NoId]
    /\ concurrency = 1
    /\ dry_run = FALSE
    /\ roots = [r \in {Root} |-> GenId(Root)]
    /\ files = {}
    /\ objects = {}
    /\ minted = {}
    /\ batches = << >>
    /\ acc = << >>
    /\ next = 0
    /\ queue = << >>
    /\ task = [c \in Commits |-> "idle"]
    /\ chunk = << >>
    /\ pc = "start"
    /\ cur = 0
    /\ inFin = {}
    /\ inflight = << >>
    /\ checking = {}
    /\ bonsai_parents = [c \in Commits |-> << >>]
    /\ dryArgs = {}
    /\ arrived = << >>
    /\ result = NoResult
    /\ fails = 0
    /\ calls = [c \in Commits |-> [o \in Ops |-> 0]]
    /\ failed = [c \in Commits |-> "none"]
    /\ submitted = << >>
    /\ delivered = << >>
    /\ known = [c \in Commits |-> {}]
    /\ batchCalls = << >>
    /\ probe = [c \in Commits |-> NoId]
    /\ finished = << >>
    /\ run = 1
    /\ firstMap = << >>
    /\ shadow = [c \in Commits |-> NoId]
    /\ overwrote = FALSE
    /\ gitObjects \in [Oids -> {[kind |-> k, target |-> NoId] :
                                   k \in {"blob", "tree"}}]
    /\ lines = << >>
    /\ nextLine = 1
    /\ ref_oid = NoId
    /\ git_ref = NewGitRef(0)
    /\ refs = {}
    /\ rpc = "idle"
    /\ turn = 0
    /\ changes \in UNION {[1..k -> DiffItems] : k \in 0..NumPaths}
    /\ fnext = 1
    /\ ftask = [i \in Paths |-> "idle"]
    /\ fmap = {}
    /\ fpc = "idle"
    /\ fcalls = [i \in Paths |-> [o \in FileOps |-> 0]]
    /\ NoPureCall

\* The spawned task has its ExtractedCommit and calls find_file_changes.
FilesBegin ==
    /\ task[FilesCommit] = "extracted"
    /\ fpc = "idle"
    /\ fpc' = "run"
    /\ UNCHANGED <<notFiles, fnext, ftask, fmap, fcalls>>

\* find_file_changes(..).await?: an Err is the result of the task.
TaskAfterFilesErr == "err"

\* find_file_changes returned: the task ends with Ok((metadata,
\* file_changes, original_commit, tree)) or with the error.
FilesReturn ==
    /\ task[FilesCommit] = "extracted"
    /\ fpc \in {"ok", "err"}
    /\ Call(FilesCommit, "upload_file")
    /\ finished' = Append(finished, FilesCommit)
    /\ IF fpc = "ok"
       THEN /\ task' = [task EXCEPT ![FilesCommit] = "ok"]
            /\ files' = files \cup {FilesCommit}
            /\ failed' = failed
       ELSE /\ task' = [task EXCEPT ![FilesCommit] = TaskAfterFilesErr]
            /\ files' = files
            /\ failed' = [failed EXCEPT ![FilesCommit] = "upload_file"]
    /\ UNCHANGED <<config, imported, objects, minted, batches, acc, next,
                   queue, chunk, pc, cur, result, fails, submitted,
                   delivered, known, batchCalls, probe, inFin, inflight, checking,
                   bonsai_parents, dryArgs,
                   arrived>>

NextFilesRun ==
    \/ Start
    \/ CheckStart
    \/ CheckOk
    \/ CheckFail
    \/ TaskExtractOk(FilesCommit)
    \/ TaskExtractFail(FilesCommit)
    \/ FilesBegin
    \/ NextFiles
    \/ FilesReturn
    \/ Deliver
    \/ StreamEnd
    \/ LookupParents
    \/ ReadTreeOk
    \/ ReadTreeFail
    \/ UploadTreeOk
    \/ UploadTreeFail
    \/ UploadCommitOk
    \/ UploadCommitFail
    \/ GenerateOk
    \/ GenerateFail
    \/ FinalizeBatchStart
    \/ FinalizeBatchOk
    \/ FinalizeBatchFail

SpecFilesRun == InitFilesRun /\ [][NextFilesRun]_vars

\* ------------------------------------------------------------- properties
IsPrefix(s, t) == Len(s) <= Len(t) /\ \A i \in 1..Len(s) : s[i] = t[i]

Pos(s, x) == CHOOSE i \in 1..Len(s) : s[i] = x

\* The commits whose result reached the and_then closure as Ok, in order.
FinalizeSeq == SelectSeq(delivered, LAMBDA c : task[c] = "ok")

\* The finalize closure issued a store call for c.
Finalized(c) ==
    \/ calls[c]["upload_tree"] > 0
    \/ calls[c]["upload_commit"] > 0
    \/ calls[c]["generate"] > 0

InBatchCall(c) == \E i \in 1..Len(batchCalls) : c \in Range(batchCalls[i])

\* The enumeration lists every id after each of its parents, roots apart.
TopoValid ==
    \A i \in 1..Len(commits) :
        \A p \in Range(parents[commits[i]]) :
            p \in DOMAIN roots \/ \E j \in 1..(i - 1) : commits[j] = p

\* C1: the k-th extraction result handed to the finalize stage is that of
\* the k-th id that left the resume filter, whatever the order in which the
\* spawned tasks completed; so commits are finalized in submission order.
C1_OrderPreserved ==
    /\ IsPrefix(delivered, submitted)
    /\ \A i, j \in 1..Len(FinalizeSeq) :
          i < j => Pos(submitted, FinalizeSeq[i]) < Pos(submitted, FinalizeSeq[j])

\* Two results were handed on in submission order although the later
\* submitted task had completed first.
C1_Witness ==
    \E i, j \in 1..Len(delivered) :
        /\ i < j
        /\ delivered[i] \in Range(finished)
        /\ delivered[j] \in Range(finished)
        /\ Pos(finished, delivered[j]) < Pos(finished, delivered[i])
        /\ task[delivered[i]] = "ok"
        /\ task[delivered[j]] = "ok"

\* C2: every commit generate_changeset was called for had all its parents
\* resolvable (in roots or in the accumulator) when its finalize step began.
C2_TopologicalSoundness ==
    \A c \in Commits :
        (calls[c]["generate"] > 0 \/ c \in minted)
            => Range(parents[c]) \subseteq known[c]

\* A commit was minted whose parent is an enumerated commit, found in the
\* accumulator.
C2_Witness ==
    \E c \in minted :
        /\ parents[c] # << >>
        /\ parents[c][1] \in Commits
        /\ parents[c][1] \in known[c]

\* C3 as stated: once a commit has failed, no later commit of the
\* enumeration is finalized.
C3_FailFast ==
    \A k, c \in Commits :
        (failed[k] # "none" /\ c > k) => ~Finalized(c) /\ c \notin minted

\* C3 amended: once a commit has failed, at most C - 1 later commits of the
\* enumeration are finalized (those that fill the chunk holding the error),
\* and neither the failed commit nor a later one is in any batch passed to
\* finalize_batch.
C3_FailWithinChunk ==
    \A k \in Commits :
        failed[k] # "none" =>
            /\ Cardinality({c \in Commits : c > k /\ task[c] = "ok"
                                /\ c \in Range(delivered)}) <= concurrency - 1
            /\ \A c \in Commits : c >= k => ~InBatchCall(c)

\* A commit failed, a later one was finalized all the same, and the run
\* returned the error.
C3_Witness ==
    /\ pc = "done"
    /\ result.status = "err"
    /\ \E k, c \in Commits : failed[k] # "none" /\ c > k /\ c \in minted

C5_ErrorNoRetry ==
    /\ fails > 0 => result.status # "ok"
    /\ \A c \in Commits : \A o \in Ops : calls[c][o] <= 1
    /\ \A i, j \in 1..Len(batchCalls) :
          i # j => Range(batchCalls[i]) \cap Range(batchCalls[j]) = {}

\* The run returned an error after as many failures as the model allows.
C5_Witness ==
    /\ pc = "done"
    /\ result.status = "err"
    /\ fails = MaxFail
    /\ \E c \in Commits : failed[c] # "none" /\ calls[c]["check"] = 1

\* C6: every batch finalize_batch is called with holds only commits that
\* were finalized successfully, and an accepted batch is never taken back.
C6_BatchAtomicity ==
    /\ [](\A i \in 1..Len(batchCalls) :
            \A c \in Range(batchCalls[i]) : c \in minted /\ failed[c] = "none")
    /\ [][IsPrefix(batches, batches')]_vars

\* A batch was accepted, a commit of a later chunk failed, and the run
\* returned the error with the first batch still in place.
C6_Witness ==
    /\ pc = "done"
    /\ result.status = "err"
    /\ Len(batches) >= 1
    /\ \E c \in Commits : failed[c] # "none" /\ ~InBatchCall(c)

\* No extraction, upload, mint or batch call was issued for c.
Untouched(c) ==
    /\ \A o \in Ops \ {"check"} : calls[c][o] = 0
    /\ task[c] = "idle"
    /\ c \notin Range(submitted)
    /\ c \notin minted
    /\ ~InBatchCall(c)

C8_ResumeFilter ==
    \A c \in Commits :
        probe[c] # NoId => Get(acc, c) = probe[c] /\ Untouched(c)

\* A resume hit was recorded and the run went on to import another commit
\* and returned Ok.
C8_Witness ==
    /\ pc = "done"
    /\ result.status = "ok"
    /\ \E c \in Commits : probe[c] # NoId
    /\ minted # {}

\* The parent lookup of c ran and one of c's parents was in neither roots
\* nor the accumulator.
MissingParent(c) ==
    /\ known[c] # {}
    /\ ~(Range(parents[c]) \subseteq known[c])

\* C9: when a parent of a commit being finalized is in neither roots nor the
\* accumulator, no upload_object, no generate_changeset and no accumulator
\* insert is made for that commit, and the run does not return Ok.
C9_MissingParent ==
    \A c \in Commits :
        MissingParent(c) =>
            /\ failed[c] = "parents"
            /\ ~Finalized(c)
            /\ calls[c]["read_tree"] = 0
            /\ c \notin minted
            /\ c \notin AccKeys(acc)
            /\ result.status # "ok"
            /\ (pc = "done" => result.status = "err")

\* The run returned the missing-parent error of a commit.
C9_Witness ==
    /\ pc = "done"
    /\ result.status = "err"
    /\ result.stage = "parents"
    /\ MissingParent(result.c)

\* C10: on a topologically valid enumeration and without collaborator
\* failures, no parent lookup fails, for every concurrency, every pattern of
\* resume hits and every completion order of the extraction tasks.
C10_NoMissingParent ==
    (TopoValid /\ fails = 0) =>
        \A c \in Commits : ~MissingParent(c) /\ failed[c] # "parents"

\* A valid run with two tasks in flight, where the child's task completed
\* before its parent's, and the child still found its parent.
C10_Witness ==
    /\ TopoValid
    /\ fails = 0
    /\ pc = "done"
    /\ result.status = "ok"
    /\ \E c \in minted :
          /\ parents[c] # << >>
          /\ parents[c][1] \in minted
          /\ Pos(finished, c) < Pos(finished, parents[c][1])
    /\ \E c \in Commits : probe[c] # NoId


\* ---------------------------------------------------- batches (C11, C12)

RECURSIVE Flatten(_)
Flatten(ss) == IF ss = << >> THEN << >> ELSE Head(ss) \o Flatten(Tail(ss))

\* The commits generate_changeset returned for, in the order of finalization.
MintedSeq == SelectSeq(delivered, LAMBDA c : c \in minted)

\* C11: at most one finalize_batch call is in flight; while one is in flight
\* every batch submitted before it has returned successfully; and the
\* commits of the submitted batches, read batch after batch, are the first
\* finalized commits in the order of their finalization.
C11_BatchesSequential ==
    /\ Len(inflight) <= 1
    /\ IsPrefix(batches, batchCalls)
    /\ Len(inflight) = 1 =>
          /\ inflight[1] = batchCalls[Len(batchCalls)]
          /\ Len(batches) = Len(batchCalls) - 1
    /\ IsPrefix(Flatten(batchCalls), MintedSeq)

\* A second batch is in flight after the first one returned.
C11_Witness ==
    /\ Len(inflight) = 1
    /\ Len(batchCalls) >= 2
    /\ Len(batches) = Len(batchCalls) - 1

\* The places of commit c in the submitted batches.
BatchSlots(c) ==
    {<<i, j>> \in (1..Len(batchCalls)) \X (1..MaxConcurrency) :
        j <= Len(batchCalls[i]) /\ batchCalls[i][j] = c}

\* C12: every batch passed to finalize_batch holds between 1 and C commits
\* and every batch but the last exactly C; when the run returned Ok, the
\* batches read one after the other are exactly the commits that were not
\* skipped by the resume filter, in finalize order, each in one batch only.
C12_BatchPartition ==
    /\ \A i \in 1..Len(batchCalls) :
          /\ Len(batchCalls[i]) >= 1
          /\ Len(batchCalls[i]) <= concurrency
          /\ i < Len(batchCalls) => Len(batchCalls[i]) = concurrency
    /\ (pc = "done" /\ result.status = "ok") =>
          /\ Flatten(batchCalls) = MintedSeq
          /\ MintedSeq = SelectSeq(commits, LAMBDA c : probe[c] = NoId)
          /\ \A c \in Range(MintedSeq) : Cardinality(BatchSlots(c)) = 1

\* A successful run with C = 2 submitted a full batch and then a last batch
\* of one commit.
C12_Witness ==
    /\ pc = "done"
    /\ result.status = "ok"
    /\ concurrency = 2
    /\ Len(batchCalls) = 2
    /\ Len(batchCalls[1]) = 2
    /\ Len(batchCalls[2]) = 1

\* ------------------------------------------- bounded parallelism (C13, C14)

\* The commits whose extraction task was spawned and whose result try_buffered
\* has not yet yielded.
Outstanding == {c \in Commits : task[c] # "idle" /\ c \notin Range(delivered)}

\* C13: at every moment at most C commits have a started extraction task
\* whose result was not yet handed to the finalize stage.
C13_BoundedParallelism == Cardinality(Outstanding) <= concurrency

\* C = 2 tasks are outstanding, both still running, while list_commits has
\* ids left.
C13_Witness ==
    /\ concurrency = 2
    /\ Cardinality(Outstanding) = 2
    /\ \A c \in Outstanding : task[c] = "spawned"
    /\ next <= Len(commits)
    /\ pc = "fill"

\* C14: at most one commit is in the finalize closure at any time, and it is
\* the one whose result and_then took last; no result is taken from
\* try_buffered while a closure is pending.
C14_SequentialFinalize ==
    /\ Cardinality(inFin) <= 1
    /\ pc \in FinalizePcs => inFin = {cur}
    /\ pc \notin FinalizePcs => inFin = {}

\* A commit is in the finalize closure after another one left it, while the
\* result of a third is ready in the buffer.
C14_Witness ==
    /\ pc \in FinalizePcs
    /\ inFin = {cur}
    /\ minted # {}
    /\ \E c \in Range(queue) : task[c] = "ok"

\* ------------------------------------------------ zero-commit run (C15)

\* C15: when the count of commits to import is 0 the run returns Ok with an
\* empty accumulator, and list_commits, check_commit_uploaded, the extraction
\* tasks, upload_file, upload_object, generate_changeset and finalize_batch
\* were never called.
C15_ZeroCommitShortCircuit ==
    (Len(commits) = 0 /\ pc = "done") =>
        /\ result = OkResult
        /\ acc = << >>
        /\ next = 0
        /\ \A c \in Commits : \A o \in Ops : calls[c][o] = 0
        /\ \A c \in Commits : task[c] = "idle"
        /\ batchCalls = << >>
        /\ inflight = << >>
        /\ files = {}
        /\ objects = {}
        /\ minted = {}

\* A run over an empty commit list has returned.
C15_Witness == Len(commits) = 0 /\ pc = "done" /\ result = OkResult

\* ------------------------------------------ accumulator contents (C16-C19)

AccPos(oid) == CHOOSE i \in 1..Len(acc) : acc[i][1] = oid

\* Every resume hit has only resume hits as enumerated parents.
HitsClosed ==
    \A c \in Commits :
        probe[c] # NoId =>
            \A p \in Range(parents[c]) \cap Range(commits) : probe[p] # NoId

\* C16 as stated, for a topological enumeration: whenever a commit and one
\* of its parents both have entries in the accumulator, the parent's entry
\* comes first in insertion order.
C16_ParentBeforeChild ==
    TopoValid =>
        \A c \in AccKeys(acc) :
            \A p \in Range(parents[c]) \cap AccKeys(acc) :
                AccPos(p) < AccPos(c)

\* C16 amended: the entry of a commit inserted by the finalize stage comes
\* after the entry of each of its parents that has one; and when the
\* enumeration is topological and no resume hit has a parent that is not a
\* hit, every entry comes after the entries of its parents.
C16_FinalizedAfterParents ==
    /\ \A c \in minted \cap AccKeys(acc) :
          \A p \in Range(parents[c]) \cap AccKeys(acc) : AccPos(p) < AccPos(c)
    /\ HitsClosed => C16_ParentBeforeChild

\* With C = 2 a resume hit was inserted ahead of a commit enumerated before
\* it, and that commit was then finalized after its parent's entry.
C16_Witness ==
    /\ concurrency = 2
    /\ \E c \in minted \cap AccKeys(acc) :
          /\ \E p \in Range(parents[c]) \cap AccKeys(acc) : AccPos(p) < AccPos(c)
          /\ \E h \in AccKeys(acc) :
                /\ probe[h] # NoId
                /\ AccPos(h) < AccPos(c)
                /\ Pos(commits, c) < Pos(commits, h)

\* C17: the accumulator is a map with unique keys: get(oid) is the id of the
\* last insert of oid and nothing for an oid never inserted; no oid has two
\* entries; len is the number of distinct oids inserted; is_empty holds
\* exactly when len is 0.
C17_UniqueKeyMap ==
    /\ \A oid \in Commits : Get(acc, oid) = shadow[oid]
    /\ \A i, j \in 1..Len(acc) : acc[i][1] = acc[j][1] => i = j
    /\ AccLen(acc) = Cardinality({oid \in Commits : shadow[oid] # NoId})
    /\ IsEmpty(acc) <=> AccLen(acc) = 0

\* Some insert found its key present; the accumulator has two entries and
\* get returns the ids inserted last.
C17_Witness ==
    /\ overwrote
    /\ AccLen(acc) = 2
    /\ acc[1][1] = 2
    /\ acc[2] = <<1, GenId(2)>>
    /\ shadow[1] = GenId(2)

\* C18: with distinct enumerated ids, generate_changeset and
\* check_commit_uploaded are called at most once per commit,
\* generate_changeset never for a resume hit, and every step that changes
\* the accumulator appends one entry for a key that was not present.
C18_AssignedOnce ==
    /\ [](\A c \in Commits :
             /\ calls[c]["generate"] <= 1
             /\ calls[c]["check"] <= 1
             /\ probe[c] # NoId => calls[c]["generate"] = 0)
    /\ [][acc' # acc =>
             /\ Len(acc') = Len(acc) + 1
             /\ IsPrefix(acc, acc')
             /\ acc'[Len(acc')][1] \notin AccKeys(acc)]_vars

\* The accumulator holds the entry of a resume hit and the entry of a commit
\* generate_changeset was called for once.
C18_Witness ==
    \E h, c \in AccKeys(acc) :
        /\ probe[h] # NoId
        /\ calls[h]["generate"] = 0
        /\ c \in minted
        /\ calls[c]["generate"] = 1

\* C19: when the run returned Ok, the accumulator's keys are exactly the
\* enumerated ids; a resume hit is mapped to the id check_commit_uploaded
\* reported and every other commit to the id its generate_changeset call
\* returned.
C19_ReturnedMapping ==
    (pc = "done" /\ result.status = "ok") =>
        /\ AccKeys(acc) = Range(commits)
        /\ AccLen(acc) = Len(commits)
        /\ \A c \in Range(commits) :
              IF probe[c] # NoId
              THEN Get(acc, c) = probe[c] /\ c \notin minted
              ELSE /\ Get(acc, c) = GenId(c)
                   /\ c \in minted
                   /\ calls[c]["generate"] = 1

\* A run over three commits returned Ok with a resume hit and a newly
\* generated changeset in its mapping.
C19_Witness ==
    /\ pc = "done"
    /\ result.status = "ok"
    /\ Len(commits) = NumCommits
    /\ \E h, c \in Range(commits) :
          /\ probe[h] = PriorId(h)
          /\ Get(acc, h) = PriorId(h)
          /\ probe[c] = NoId
          /\ Get(acc, c) = GenId(c)

\* ------------------------------------------------- read_git_refs (C20)

\* The object a chain of tags starting at o ends at, following at most k
\* targets.
RECURSIVE ChainEnd(_, _)
ChainEnd(o, k) ==
    IF gitObjects[o].kind = "tag" /\ k > 0
    THEN ChainEnd(gitObjects[o].target, k - 1)
    ELSE o

\* The chain of line i is some tags followed by a commit.
EndsInCommit(i) ==
    /\ lines[i].form = "ok"
    /\ gitObjects[ChainEnd(lines[i].oid, NumObjects)].kind = "commit"

\* The loop has finished with line i.
Resolved(i) ==
    /\ i < nextLine
    /\ ~(rpc = "loop" /\ git_ref.name = i)

\* The entry a ref whose chain ends in a commit is to have.
ExpectedRef(i) ==
    <<[name |-> i,
       maybe_tag_id |-> IF gitObjects[lines[i].oid].kind = "tag"
                        THEN lines[i].oid ELSE NoId],
      ChainEnd(lines[i].oid, NumObjects)>>

\* C20: once a ref whose chain is n >= 0 tags followed by a commit is
\* resolved, the map holds for it exactly one entry: the commit's id under
\* the ref's name with maybe_tag_id the id of the first tag of the chain,
\* unset when n = 0.
C20_TagPeeling ==
    \A i \in 1..Len(lines) :
        (Resolved(i) /\ EndsInCommit(i) /\ rpc # "failed") =>
            /\ ExpectedRef(i) \in refs
            /\ \A e \in refs : e[1].name = i => e = ExpectedRef(i)

\* read_git_refs returned a map with a ref that points at a commit and a ref
\* that reaches another commit through two tags.
C20_Witness ==
    /\ rpc = "done"
    /\ Len(lines) = 2
    /\ EndsInCommit(1)
    /\ gitObjects[lines[1].oid].kind = "commit"
    /\ EndsInCommit(2)
    /\ gitObjects[lines[2].oid].kind = "tag"
    /\ gitObjects[gitObjects[lines[2].oid].target].kind = "tag"
    /\ gitObjects[lines[2].oid].target # lines[2].oid
    /\ ExpectedRef(1) \in refs
    /\ ExpectedRef(2) \in refs

\* ------------------------------------------- read_git_refs (C21 - C23)

\* The chain of tags of line i ends at an object of kind k.
EndsIn(i, k) ==
    /\ lines[i].form = "ok"
    /\ gitObjects[ChainEnd(lines[i].oid, NumObjects)].kind = k

\* C21: once the loop has finished with a ref whose chain ends at a blob,
\* the call has failed: it returns an error and no map, whatever refs were
\* recorded before, and it never returns Ok.
C21_BlobFails ==
    \A i \in 1..Len(lines) :
        (Resolved(i) /\ EndsIn(i, "blob")) =>
            /\ rpc = "failed"
            /\ ReadGitRefsResult = [status |-> "err", map |-> {}]

\* The call failed on its second ref, which reaches a blob through a tag,
\* after the first ref had been recorded.
C21_Witness ==
    /\ rpc = "failed"
    /\ Len(lines) = 2
    /\ nextLine = 3
    /\ EndsIn(2, "blob")
    /\ gitObjects[lines[2].oid].kind = "tag"
    /\ ref_oid = ChainEnd(lines[2].oid, NumObjects)
    /\ EndsIn(1, "commit")
    /\ ExpectedRef(1) \in refs
    /\ ReadGitRefsResult.map = {}

\* C22: a ref whose chain ends at a tree has no entry in the map once the
\* loop has finished with it, and the step that reads the tree goes on to
\* the next line with the map unchanged.
C22_TreeNoEntry ==
    /\ [](\A i \in 1..Len(lines) :
             (Resolved(i) /\ EndsIn(i, "tree") /\ rpc # "failed") =>
                 \A e \in refs : e[1].name # i)
    /\ [][(rpc = "loop" /\ gitObjects[ref_oid].kind = "tree" /\ rpc' # "failed")
             => (rpc' = "line" /\ refs' = refs /\ nextLine' = nextLine)]_vars

\* The call returned Ok: its first ref reaches a tree and has no entry, its
\* second ref, read after it, is recorded.
C22_Witness ==
    /\ rpc = "done"
    /\ Len(lines) = 2
    /\ EndsIn(1, "tree")
    /\ EndsIn(2, "commit")
    /\ ReadGitRefsResult = [status |-> "ok", map |-> {ExpectedRef(2)}]

\* No ref line starts a chain of tags that comes back to one of its tags.
NoTagCycle ==
    \A i \in 1..Len(lines) :
        lines[i].form = "ok" =>
            gitObjects[ChainEnd(lines[i].oid, NumObjects)].kind # "tag"

\* C23: every call of read_git_refs returns, with Ok or with an error,
\* whatever the tags point at.
C23_PeelingTerminates == <>(rpc \in {"done", "failed"})

\* What holds instead: the call returns when no chain of tags has a cycle.
C23_AcyclicTerminates == NoTagCycle => <>(rpc \in {"done", "failed"})

\* ---------------------------------------------- find_file_changes (C24, C25)

UniquePaths ==
    \A i, j \in 1..Len(changes) :
        i # j => changes[i].path # changes[j].path

\* C24: when find_file_changes returns Ok for a diff stream with unique
\* paths, the map has one entry for each path of the stream and no other; a
\* Deleted record is mapped to the deleted sentinel and no get_object or
\* upload_file call was made for it; a Changed or ChangedReusedId record is
\* mapped to the change of its one upload_file call.
C24_ChangeSet ==
    (fpc = "ok" /\ UniquePaths) =>
        /\ {e[1] : e \in fmap} = {changes[i].path : i \in 1..Len(changes)}
        /\ Cardinality(fmap) = Len(changes)
        /\ \A i \in 1..Len(changes) :
              IF changes[i].kind = "deleted"
              THEN /\ <<changes[i].path, DeletedChange>> \in fmap
                   /\ \A o \in FileOps : fcalls[i][o] = 0
              ELSE /\ <<changes[i].path,
                        UploadFile(changes[i].path, changes[i].leaf)>> \in fmap
                   /\ \A o \in FileOps : fcalls[i][o] = 1

\* The call returned Ok for a stream of a deleted path and a changed path.
C24_Witness ==
    /\ fpc = "ok"
    /\ Len(changes) = 2
    /\ UniquePaths
    /\ changes[1].kind = "deleted"
    /\ changes[2].kind = "changed"
    /\ Cardinality(fmap) = 2

\* The task of stream item i ended with an error: the object could not be
\* read, it is not a blob, or upload_file failed.
PathFailed(i) == ftask[i] \in {"err", "reported"}

\* C25: when the resolution of some path failed, find_file_changes does not
\* return Ok: once it has returned, its result is an error without a map;
\* the extraction task of the commit does not end Ok and generate_changeset
\* is never called for the commit.
C25_NoPartialChangeSet ==
    \A i \in 1..Len(changes) :
        PathFailed(i) =>
            /\ fpc # "ok"
            /\ fpc = "err" => FindFileChangesResult = [status |-> "err", map |-> {}]
            /\ task[FilesCommit] # "ok"
            /\ calls[FilesCommit]["generate"] = 0
            /\ FilesCommit \notin AccKeys(acc)

\* The run over the commit has ended with an error after the first path was
\* collected into the map and the upload of the second failed.
C25_Witness ==
    /\ pc = "done"
    /\ result.status = "err"
    /\ Len(changes) = 2
    /\ ftask[1] = "collected"
    /\ ftask[2] = "reported"
    /\ fcalls[2]["upload_file"] = 1
    /\ fmap # {}
    /\ fpc = "err"

\* ------------------------------------------------ resume filter (C26)

\* C26: at most one check_commit_uploaded call is in flight; the ids the
\* call was made for are the first ids of the enumeration, and the only id
\* whose call may not have returned is the last of them.
C26_ChecksSequential ==
    /\ Cardinality(checking) <= 1
    /\ \A i \in 1..Len(commits) :
          /\ calls[commits[i]]["check"] > 0 <=> i < next
          /\ calls[commits[i]]["check"] <= 1
          /\ commits[i] \in checking => i = next - 1

\* With C = 2 the check of the second id is in flight while the extraction
\* task of the first id runs.
C26_Witness ==
    /\ concurrency = 2
    /\ Len(commits) >= 2
    /\ checking = {commits[2]}
    /\ task[commits[1]] \in {"spawned", "extracted"}
    /\ queue = <<commits[1]>>


\* ------------------------------------------------ finalize order (C27)

\* The finalize closure of c made the call op once and it did not fail.
StepDone(c, op) == calls[c][op] = 1 /\ failed[c] # op

\* C27: the finalize closure of a commit looks up the parents, reads and
\* uploads the tree, uploads the commit, generates the changeset and then
\* inserts into the accumulator, in this order, each step once the step
\* before it has succeeded; the accumulator holds a non-skipped commit only
\* with the id its generate_changeset call returned.
C27_FinalizeOrder ==
    \A c \in Commits :
        /\ calls[c]["read_tree"] > 0 =>
              known[c] # {} /\ failed[c] # "parents"
        /\ calls[c]["upload_tree"] > 0 => StepDone(c, "read_tree")
        /\ calls[c]["upload_commit"] > 0 => StepDone(c, "upload_tree")
        /\ calls[c]["generate"] > 0 => StepDone(c, "upload_commit")
        /\ (c \in AccKeys(acc) /\ probe[c] = NoId) =>
              /\ StepDone(c, "generate")
              /\ c \in minted
              /\ Get(acc, c) = GenId(c)
        /\ calls[c]["generate"] = 0 => (c \in AccKeys(acc) => probe[c] # NoId)

\* Both uploads of a commit succeeded, its generate_changeset call has been
\* made and failed, and the accumulator holds no entry for it, while an
\* earlier commit went through all the steps and is in the accumulator.
C27_Witness ==
    \E c, d \in Commits :
        /\ c # d
        /\ StepDone(c, "upload_tree")
        /\ StepDone(c, "upload_commit")
        /\ failed[c] = "generate"
        /\ c \notin AccKeys(acc)
        /\ probe[d] = NoId
        /\ StepDone(d, "generate")
        /\ Get(acc, d) = GenId(d)

\* ------------------------------------------------ parent resolution (C28)

\* Most parents of the commit whose parents are resolved.
MaxParents == 2

\* The id get_roots reports for the foreign id k.
RootId(k) == 300 + k

\* The commit whose parent list is drawn: the last of the enumeration.
Child == NumCommits

\* A run over the commits 1..NumCommits in this order in which the last
\* commit has up to MaxParents parents among the earlier commits and Root,
\* and the roots map holds any of these ids.
InitParents ==
    /\ commits = [i \in 1..NumCommits |-> i]
    /\ \E ps \in SeqsNoDup((Commits \ {Child}) \cup {Root}, MaxParents) :
          parents = [c \in Commits |-> IF c = Child THEN ps ELSE << >>]
    /\ \E S \in SUBSET (Commits \ {Child}) :
          imported = [c \in Commits |-> IF c \in S THEN PriorId(c) ELSE NoId]
    /\ concurrency \in 1..MaxConcurrency
    /\ dry_run = FALSE
    /\ \E S \in SUBSET ((Commits \ {Child}) \cup {Root}) :
          roots = [k \in S |-> RootId(k)]
    /\ files = {}
    /\ objects = {}
    /\ minted = {}
    /\ batches = << >>
    /\ acc = << >>
    /\ next = 0
    /\ queue = << >>
    /\ task = [c \in Commits |-> "idle"]
    /\ chunk = << >>
    /\ pc = "start"
    /\ cur = 0
    /\ inFin = {}
    /\ inflight = << >>
    /\ checking = {}
    /\ bonsai_parents = [c \in Commits |-> << >>]
    /\ dryArgs = {}
    /\ arrived = << >>
    /\ result = NoResult
    /\ fails = 0
    /\ calls = [c \in Commits |-> [o \in Ops |-> 0]]
    /\ failed = [c \in Commits |-> "none"]
    /\ submitted = << >>
    /\ delivered = << >>
    /\ known = [c \in Commits |-> {}]
    /\ batchCalls = << >>
    /\ probe = [c \in Commits |-> NoId]
    /\ finished = << >>
    /\ run = 1
    /\ firstMap = << >>
    /\ shadow = [c \in Commits |-> NoId]
    /\ overwrote = FALSE
    /\ NoRefsCall
    /\ NoFilesCall
    /\ NoPureCall

SpecParents == InitParents /\ [][Next]_vars

\* The id the parent p of a commit resolves to: the one of the roots map
\* when that has p, else the one the accumulator got for p from the resume
\* check or from generate_changeset.
ExpectedParent(p) ==
    IF p \in DOMAIN roots THEN RootId(p)
    ELSE IF probe[p] # NoId THEN probe[p] ELSE GenId(p)

\* C28: the parent ids generate_changeset gets for a commit are as many as
\* the commit has parents, in the order of its parent list, each resolved in
\* the roots map first and in the accumulator only when the roots map has
\* no entry for it.
C28_ParentResolution ==
    \A c \in Commits :
        calls[c]["generate"] > 0 =>
            /\ Len(bonsai_parents[c]) = Len(parents[c])
            /\ \A i \in 1..Len(parents[c]) :
                  bonsai_parents[c][i] = ExpectedParent(parents[c][i])

\* generate_changeset was called for a commit with two parents, the first
\* both in the roots map and in the accumulator, the second only in the
\* accumulator.
C28_Witness ==
    /\ calls[Child]["generate"] > 0
    /\ Len(parents[Child]) = 2
    /\ parents[Child][1] \in DOMAIN roots
    /\ parents[Child][1] \in AccKeys(acc)
    /\ parents[Child][2] \notin DOMAIN roots
    /\ bonsai_parents[Child][1] = RootId(parents[Child][1])
    /\ bonsai_parents[Child][2] = Get(acc, parents[Child][2])

\* ------------------------------------------------ dry run (C29)

\* The target store holds nothing it did not hold when the run began: no
\* file blob, no tree or commit object, no mapping of a commit of this run.
StoreUntouched ==
    /\ files = {}
    /\ objects = {}
    /\ \A c \in Commits : imported[c] \in {NoId, PriorId(c)}

\* C29: every generate_changeset and finalize_batch call of the run gets
\* the value of the dry-run flag read at the start of the run, and a run
\* with the flag set writes nothing to the target store.
C29_DryRunNoWrite ==
    /\ \A a \in dryArgs : a.dry_run = dry_run
    /\ dry_run => StoreUntouched

\* Every generate_changeset and finalize_batch call of the run gets the
\* value of the dry-run flag read at the start of the run, and a run with
\* the flag set leaves the commit mappings of the target store as they were.
C29_SameFlag ==
    /\ \A a \in dryArgs : a.dry_run = dry_run
    /\ dry_run => \A c \in Commits : imported[c] \in {NoId, PriorId(c)}

\* A dry run has ended with Ok after generate_changeset and finalize_batch
\* were called with the flag set.
C29_DryRunDone ==
    /\ dry_run
    /\ pc = "done"
    /\ result.status = "ok"
    /\ dryArgs = {[call |-> "generate", dry_run |-> TRUE],
                  [call |-> "finalize_batch", dry_run |-> TRUE]}

\* ------------------------------------------------ termination (C30)

\* Every call that was made returns and every future that can be polled is
\* polled: a step that stays possible is taken.
SpecLive == Init /\ [][Next]_vars /\ WF_vars(Next)

\* gitimport_acc has returned Ok or Err.
Returned == pc = "done" /\ result.status \in {"ok", "err"}

\* C30: when every collaborator call returns, the run returns Ok or Err for
\* every concurrency and every commit list; the extraction buffer, the
\* finalize stage and the batch stage never wait for each other for ever.
C30_Terminates == <>Returned

\* A run with the largest concurrency over the longest commit list, none of
\* the commits skipped, has returned Ok after more than one batch.
C30_Witness ==
    /\ Returned
    /\ result.status = "ok"
    /\ concurrency = MaxConcurrency
    /\ Len(commits) = NumCommits
    /\ Len(batches) >= 2
    /\ \A c \in Commits : c \in minted

\* ------------------------------------------------ batch barrier (C31)

\* The finalize closure of c has started.
FinalizeStarted(c) ==
    \/ c \in inFin
    \/ known[c] # {}
    \/ calls[c]["read_tree"] > 0
    \/ Finalized(c)

\* C31: while a finalize_batch call has not returned, no finalize closure
\* runs and every commit whose finalize closure has started belongs to a
\* batch already handed to finalize_batch: no commit of the next batch
\* starts its finalize step before the call for this batch returned.
C31_BatchBarrier ==
    inflight # << >> =>
        /\ pc \notin FinalizePcs
        /\ cur = 0
        /\ inFin = {}
        /\ \A c \in Commits : FinalizeStarted(c) => InBatchCall(c)

\* While the finalize_batch call of a batch has not returned, the
\* extraction task of a commit of the next batch has finished and waits in
\* the buffer, its finalize closure not started.
C31_Witness ==
    /\ inflight # << >>
    /\ \E c \in Range(queue) :
          /\ task[c] = "ok"
          /\ calls[c]["upload_file"] = 1
          /\ ~FinalizeStarted(c)
          /\ ~InBatchCall(c)

\* ------------------------------------------------ first error (C32)

\* The places of the failed items among the items chunks received.
ErrPlaces == {i \in 1..Len(arrived) : ~arrived[i].ok}

\* The first failed item that reached chunks.
FirstErr == arrived[CHOOSE i \in ErrPlaces : \A j \in ErrPlaces : i <= j]

\* C32: a run that returns the error of an item returns the error of the
\* first failed item in the order the results reached chunks, also when
\* later items of the same batch failed; all failed items are in one
\* batch, the last one chunks received.
C32_FirstError ==
    /\ ErrPlaces # {} =>
          \A i \in ErrPlaces : \A j \in i..Len(arrived) :
              (j - 1) \div concurrency = (i - 1) \div concurrency
    /\ (pc = "done" /\ result.status = "err"
            /\ result.stage # "finalize_batch") =>
          /\ ErrPlaces # {}
          /\ result = Err(FirstErr.c, FirstErr.stage)
    /\ (pc = "done" /\ ErrPlaces # {}) =>
          result = Err(FirstErr.c, FirstErr.stage)

\* The finalization of a commit failed after its parents were resolved,
\* the parent lookup of its child failed next in the same batch, and the
\* run returned the failure of the parent.
C32_Witness ==
    /\ pc = "done"
    /\ Cardinality(ErrPlaces) >= 2
    /\ \E i, j \in ErrPlaces :
          /\ i < j
          /\ arrived[i].stage \in {"read_tree", "upload_tree",
                                    "upload_commit", "generate"}
          /\ arrived[j].stage = "parents"
          /\ arrived[i].c \in Range(parents[arrived[j].c])
          /\ result = Err(arrived[i].c, arrived[i].stage)

\* ------------------------------------------------ import of one tree (C33)
\* import_tree_as_single_bonsai_changeset, for the commit FilesCommit. Its
\* position is pc, its calls are counted in calls and batchCalls as those of
\* gitimport_acc are, and find_file_changes runs as in SpecFiles.

\* HashSet::new(): the parents the tree is diffed against.
TreeDiffParents == {}

\* vec![]: the parents generate_changeset gets.
TreeParents == << >>

\* What bonsai_diff yields against the parents ps: without a parent every
\* entry of the tree is a change, nothing is deleted or reused.
DiffAgainst(ps) ==
    IF ps = {} THEN {d \in DiffItems : d.kind \in {"changed", "err"}}
    ELSE DiffItems

\* Ok(id)
OkId(id) == [status |-> "ok", c |-> id, stage |-> "none"]

\* Variant: generate_changeset follows find_file_changes at once.
TreeStepAfterSkip(at) ==
    CASE at = "tree_open" -> "tree_extract"
      [] at = "tree_extract" -> "tree_files"
      [] at = "tree_files" -> "tree_generate"
      [] at = "tree_upload_commit" -> "tree_generate"
      [] at = "tree_generate" -> "tree_finalize"
      [] at = "tree_finalize" -> "done"

\* The awaits of the function, in the order of its code.
TreeStepAfter(at) ==
    CASE at = "tree_open" -> "tree_extract"
      [] at = "tree_extract" -> "tree_files"
      [] at = "tree_files" -> "tree_upload_commit"
      [] at = "tree_upload_commit" -> "tree_generate"
      [] at = "tree_generate" -> "tree_finalize"
      [] at = "tree_finalize" -> "done"

InitTree ==
    /\ commits = << >>
    /\ parents = [c \in Commits |-> << >>]
    /\ imported = [c \in Commits |-> NoId]
    /\ concurrency = 1
    /\ dry_run \in BOOLEAN
    /\ roots = [r \in {Root} |-> GenId(Root)]
    /\ files = {}
    /\ objects = {}
    /\ minted = {}
    /\ batches = << >>
    /\ acc = << >>
    /\ next = 0
    /\ queue = << >>
    /\ task = [c \in Commits |-> "idle"]
    /\ chunk = << >>
    /\ pc = "tree_open"
    /\ cur = 0
    /\ inFin = {}
    /\ inflight = << >>
    /\ checking = {}
    /\ bonsai_parents = [c \in Commits |-> << >>]
    /\ dryArgs = {}
    /\ arrived = << >>
    /\ result = NoResult
    /\ fails = 0
    /\ calls = [c \in Commits |-> [o \in Ops |-> 0]]
    /\ failed = [c \in Commits |-> "none"]
    /\ submitted = << >>
    /\ delivered = << >>
    /\ known = [c \in Commits |-> {}]
    /\ batchCalls = << >>
    /\ probe = [c \in Commits |-> NoId]
    /\ finished = << >>
    /\ run = 1
    /\ firstMap = << >>
    /\ shadow = [c \in Commits |-> NoId]
    /\ overwrote = FALSE
    /\ gitObjects \in [Oids -> {[kind |-> k, target |-> NoId] :
                                   k \in {"blob", "tree"}}]
    /\ lines = << >>
    /\ nextLine = 1
    /\ ref_oid = NoId
    /\ git_ref = NewGitRef(0)
    /\ refs = {}
    /\ rpc = "idle"
    /\ turn = 0
    /\ changes \in UNION {[1..k -> DiffAgainst(TreeDiffParents)] :
                             k \in 0..NumPaths}
    /\ fnext = 1
    /\ ftask = [i \in Paths |-> "idle"]
    /\ fmap = {}
    /\ fpc = "idle"
    /\ fcalls = [i \in Paths |-> [o \in FileOps |-> 0]]
    /\ NoPureCall

\* What no step of the function changes.
treeKept == <<commits, parents, concurrency, dry_run, roots, files, acc, next,
              queue, task, chunk, cur, inFin, inflight, checking, arrived,
              submitted, delivered, known, probe, finished, run, firstMap,
              shadow, overwrote, refsVars, changes, fnext, ftask, fmap,
              fcalls, pureVars>>

\* An await of the function returned Ok: the function goes on.
TreeOk(at, op) ==
    /\ pc = at
    /\ IF op \in Ops THEN Call(FilesCommit, op) ELSE calls' = calls
    /\ pc' = TreeStepAfter(at)
    /\ UNCHANGED <<treeKept, fails, failed>>

\* An await of the function returned an error: `?` returns it.
TreeFail(at, op) ==
    /\ pc = at
    /\ CanFail
    /\ IF op \in Ops THEN Call(FilesCommit, op) ELSE calls' = calls
    /\ fails' = fails + 1
    /\ failed' = [failed EXCEPT ![FilesCommit] = op]
    /\ pc' = "done"
    /\ result' = Err(FilesCommit, op)
    /\ UNCHANGED treeKept

\* GitRepoReader::new(..).await? and oid_to_sha1(&git_cs_id)?
TreeOpenOk ==
    /\ TreeOk("tree_open", "open")
    /\ UNCHANGED <<result, objects, minted, bonsai_parents, dryArgs,
                   batchCalls, batches, imported, fpc>>

TreeOpenFail ==
    /\ TreeFail("tree_open", "open")
    /\ UNCHANGED <<objects, minted, bonsai_parents, dryArgs, batchCalls,
                   batches, imported, fpc>>

\* ExtractedCommit::new(..).await returned Ok: find_file_changes is called
\* on bonsai_diff(ctx, reader, tree, HashSet::new()).
TreeExtractOk ==
    /\ TreeOk("tree_extract", "extract")
    /\ fpc' = "run"
    /\ UNCHANGED <<result, objects, minted, bonsai_parents, dryArgs,
                   batchCalls, batches, imported>>

TreeExtractFail ==
    /\ TreeFail("tree_extract", "extract")
    /\ UNCHANGED <<objects, minted, bonsai_parents, dryArgs, batchCalls,
                   batches, imported, fpc>>

\* find_file_changes(..).await? returned Ok(file_changes).
TreeFilesOk ==
    /\ fpc = "ok"
    /\ TreeOk("tree_files", "upload_file")
    /\ UNCHANGED <<result, objects, minted, bonsai_parents, dryArgs,
                   batchCalls, batches, imported, fpc>>

\* find_file_changes(..).await? returned an error.
TreeFilesErr ==
    /\ fpc = "err"
    /\ pc = "tree_files"
    /\ Call(FilesCommit, "upload_file")
    /\ failed' = [failed EXCEPT ![FilesCommit] = "upload_file"]
    /\ pc' = "done"
    /\ result' = Err(FilesCommit, "upload_file")
    /\ UNCHANGED <<treeKept, fails, objects, minted, bonsai_parents, dryArgs,
                   batchCalls, batches, imported, fpc>>

\* uploader.upload_object(ctx, git_cs_id, original_commit).await
TreeUploadCommitOk ==
    /\ TreeOk("tree_upload_commit", "upload_commit")
    /\ objects' = objects \cup {<<"commit", FilesCommit>>}
    /\ UNCHANGED <<result, minted, bonsai_parents, dryArgs, batchCalls,
                   batches, imported, fpc>>

TreeUploadCommitFail ==
    /\ TreeFail("tree_upload_commit", "upload_commit")
    /\ UNCHANGED <<objects, minted, bonsai_parents, dryArgs, batchCalls,
                   batches, imported, fpc>>

\* generate_changeset(ctx, vec![], metadata, file_changes, prefs.dry_run)
\* returned Ok((cs, id)): and_then calls the closure.
TreeGenerateOk ==
    /\ TreeOk("tree_generate", "generate")
    /\ minted' = minted \cup {FilesCommit}
    /\ bonsai_parents' = [bonsai_parents EXCEPT ![FilesCommit] = TreeParents]
    /\ dryArgs' = dryArgs \cup {[call |-> "generate", dry_run |-> dry_run]}
    /\ UNCHANGED <<result, objects, batchCalls, batches, imported, fpc>>

TreeGenerateFail ==
    /\ TreeFail("tree_generate", "generate")
    /\ bonsai_parents' = [bonsai_parents EXCEPT ![FilesCommit] = TreeParents]
    /\ dryArgs' = dryArgs \cup {[call |-> "generate", dry_run |-> dry_run]}
    /\ UNCHANGED <<objects, minted, batchCalls, batches, imported, fpc>>

\* finalize_batch(ctx, prefs.dry_run, vec![(cs, sha1)]) returned Ok:
\* map_ok(move |_| id)
TreeFinalizeOk ==
    /\ TreeOk("tree_finalize", "finalize_batch")
    /\ batchCalls' = Append(batchCalls, <<FilesCommit>>)
    /\ batches' = Append(batches, <<FilesCommit>>)
    /\ imported' = StoreAfterBatch(imported, <<FilesCommit>>, dry_run)
    /\ dryArgs' =
          dryArgs \cup {[call |-> "finalize_batch", dry_run |-> dry_run]}
    /\ result' = OkId(GenId(FilesCommit))
    /\ UNCHANGED <<objects, minted, bonsai_parents, fpc>>

\* finalize_batch returned an error: the id is dropped with it.
TreeFinalizeFail ==
    /\ pc = "tree_finalize"
    /\ CanFail
    /\ fails' = fails + 1
    /\ batchCalls' = Append(batchCalls, <<FilesCommit>>)
    /\ dryArgs' =
          dryArgs \cup {[call |-> "finalize_batch", dry_run |-> dry_run]}
    /\ pc' = "done"
    /\ result' = Err(0, "finalize_batch")
    /\ UNCHANGED <<treeKept, calls, failed, objects, minted, bonsai_parents,
                   batches, imported, fpc>>

NextTree ==
    \/ TreeOpenOk
    \/ TreeOpenFail
    \/ TreeExtractOk
    \/ TreeExtractFail
    \/ FilesPull
    \/ FilesEnd
    \/ \E i \in Paths :
          \/ FileGetObjectOk(i)
          \/ FileGetObjectFail(i)
          \/ FileUploadOk(i)
          \/ FileUploadFail(i)
          \/ FilesCollect(i)
    \/ TreeFilesOk
    \/ TreeFilesErr
    \/ TreeUploadCommitOk
    \/ TreeUploadCommitFail
    \/ TreeGenerateOk
    \/ TreeGenerateFail
    \/ TreeFinalizeOk
    \/ TreeFinalizeFail

SpecTree == InitTree /\ [][NextTree]_vars

\* C33: import_tree_as_single_bonsai_changeset resolves the file changes of
\* the tree diffed against no parent, then uploads the raw commit, then
\* calls generate_changeset with no parent, then finalize_batch once with a
\* batch of one entry, each only after the step before returned Ok; it
\* returns the id of generate_changeset only when finalize_batch returned
\* Ok, and after an earlier failure finalize_batch is never called.
C33_TreeImportOrder ==
    /\ fpc # "idle" =>
          /\ StepDone(FilesCommit, "extract")
          /\ \A i \in 1..Len(changes) : changes[i].kind # "deleted"
    /\ calls[FilesCommit]["upload_commit"] > 0 =>
          fpc = "ok" /\ calls[FilesCommit]["upload_file"] = 1
    /\ calls[FilesCommit]["generate"] > 0 =>
          /\ StepDone(FilesCommit, "upload_commit")
          /\ bonsai_parents[FilesCommit] = << >>
    /\ batchCalls \in {<< >>, <<(<<FilesCommit>>)>>}
    /\ batchCalls # << >> => StepDone(FilesCommit, "generate")
    /\ calls[FilesCommit]["upload_tree"] = 0
    /\ result.status = "ok" =>
          /\ pc = "done"
          /\ result = OkId(GenId(FilesCommit))
          /\ FilesCommit \in minted
          /\ batches = <<(<<FilesCommit>>)>>
    /\ (result.status = "err" /\ result.stage # "finalize_batch") =>
          batchCalls = << >>
    /\ (result.status = "err" /\ result.stage = "finalize_batch") =>
          /\ batchCalls = <<(<<FilesCommit>>)>>
          /\ batches = << >>
    /\ pc = "done" => result.status \in {"ok", "err"}

\* The function returned the id of its changeset after both files of the
\* tree were uploaded.
C33_Witness ==
    /\ pc = "done"
    /\ result = OkId(GenId(FilesCommit))
    /\ Len(changes) = NumPaths
    /\ \A i \in 1..Len(changes) : ftask[i] = "collected"
    /\ batches = <<(<<FilesCommit>>)>>

\* ------------------------------------------------ rename_finders.rs
\* strip_common_prefix_and_suffix and detect_batch_move are pure functions
\* of src/eden/scm/lib/copytrace/src/rename_finders.rs. A string is the
\* sequence of its chars, a char a number of 1..NumChars.

\* The chars that occur in the strings.
NumChars == 4

\* The longest string given to strip_common_prefix_and_suffix.
MaxStrLen == 4

Chars == 1..NumChars

Strings(n) == UNION {[1..k -> Chars] : k \in 0..n}

\* v[i] of a Vec is defined for 0 <= i < v.len(); anything else panics.
InBounds(v, i) == i >= 0 /\ i < Len(v)

\* v[i], the index counted from 0
At(v, i) == v[i + 1]

\* What the function returns, or that it panicked.
StripOk(r1, r2, st, en) ==
    [panic |-> FALSE, r1 |-> r1, r2 |-> r2, start |-> st, end |-> en]
StripPanic == [panic |-> TRUE, r1 |-> << >>, r2 |-> << >>, start |-> 0, end |-> 0]

\* The first loop: start counts the chars the strings share at the front.
RECURSIVE PrefixLoop(_, _, _)
PrefixLoop(a, b, st) ==
    IF st < Len(a) /\ st < Len(b)
    THEN IF ~InBounds(a, st) \/ ~InBounds(b, st) THEN -1
         ELSE IF At(a, st) = At(b, st) THEN PrefixLoop(a, b, st + 1)
         ELSE st
    ELSE st

\* Variant: the second loop runs over the whole strings.
SuffixBoundWhole(n, st) == n

\* s1_chars.len() - start, the chars left behind the common prefix
SuffixBound(n, st) == n - st

\* The second loop: end counts the chars the rests share at the back. A
\* subtraction of usize below zero, or an index outside the Vec, gives -1.
RECURSIVE SuffixLoop(_, _, _, _)
SuffixLoop(a, b, st, en) ==
    IF SuffixBound(Len(a), st) < 0 THEN -1
    ELSE IF ~(en < SuffixBound(Len(a), st)) THEN en
    ELSE IF SuffixBound(Len(b), st) < 0 THEN -1
    ELSE IF ~(en < SuffixBound(Len(b), st)) THEN en
    ELSE IF ~InBounds(a, Len(a) - 1 - en) \/ ~InBounds(b, Len(b) - 1 - en)
         THEN -1
    ELSE IF At(a, Len(a) - 1 - en) = At(b, Len(b) - 1 - en)
         THEN SuffixLoop(a, b, st, en + 1)
    ELSE en

\* v[lo..hi] is defined for lo <= hi <= v.len(); anything else panics.
SliceOk(v, lo, hi) == 0 <= lo /\ lo <= hi /\ hi <= Len(v)

\* v[lo..hi]
Slice(v, lo, hi) == SubSeq(v, lo + 1, hi)

strip_common_prefix_and_suffix(a, b) ==
    LET st == PrefixLoop(a, b, 0)
    IN  IF st < 0 THEN StripPanic
        ELSE LET en == SuffixLoop(a, b, st, 0)
             IN  IF en < 0 THEN StripPanic
                 ELSE IF ~SliceOk(a, st, Len(a) - en)
                         \/ ~SliceOk(b, st, Len(b) - en)
                      THEN StripPanic
                 ELSE StripOk(Slice(a, st, Len(a) - en),
                              Slice(b, st, Len(b) - en), st, en)

\* A call of strip_common_prefix_and_suffix on any two strings.
InitStrip ==
    /\ NoRun
    /\ acc = << >>
    /\ shadow = [c \in Commits |-> NoId]
    /\ overwrote = FALSE
    /\ NoRefsCall
    /\ NoFilesCall
    /\ s1 \in Strings(MaxStrLen)
    /\ s2 \in Strings(MaxStrLen)
    /\ stripped = << >>
    /\ spc = "call"
    /\ added_files = << >>
    /\ deleted_files = << >>
    /\ moved = << >>
    /\ bpc = "idle"

StripCall ==
    /\ spc = "call"
    /\ stripped' = strip_common_prefix_and_suffix(s1, s2)
    /\ spc' = "done"
    /\ UNCHANGED <<pipeline, acc, shadow, overwrote, refsVars, filesVars, s1,
                   s2, added_files, deleted_files, moved, bpc>>

NextStrip == StripCall

SpecStrip == InitStrip /\ [][NextStrip]_vars

\* a and b begin with the same k chars.
SharePrefix(a, b, k) ==
    k <= Len(a) /\ k <= Len(b) /\ SubSeq(a, 1, k) = SubSeq(b, 1, k)

\* a and b end with the same k chars.
ShareSuffix(a, b, k) ==
    /\ k <= Len(a)
    /\ k <= Len(b)
    /\ SubSeq(a, Len(a) - k + 1, Len(a)) = SubSeq(b, Len(b) - k + 1, Len(b))

\* The length of the longest common prefix of a and b.
LongestPrefix(a, b) ==
    CHOOSE k \in 0..Len(a) :
        SharePrefix(a, b, k) /\ \A j \in (k + 1)..Len(a) : ~SharePrefix(a, b, j)

\* The length of the longest common suffix of a and b.
LongestSuffix(a, b) ==
    CHOOSE k \in 0..Len(a) :
        ShareSuffix(a, b, k) /\ \A j \in (k + 1)..Len(a) : ~ShareSuffix(a, b, j)

\* C35: strip_common_prefix_and_suffix never panics on an index or a
\* range; it takes the longest common prefix p off both strings and then
\* the longest common suffix s off what is left, so that s1 = p + r1 + s and
\* s2 = p + r2 + s for the strings r1, r2 it returns; "1a22" and "1b2" give
\* "a2" and "b" (1, 2, a, b written as the chars 1, 2, 3, 4).
C35_StripPrefixThenSuffix ==
    spc = "done" =>
        LET p    == LongestPrefix(s1, s2)
            rest1 == SubSeq(s1, p + 1, Len(s1))
            rest2 == SubSeq(s2, p + 1, Len(s2))
            q    == LongestSuffix(rest1, rest2)
        IN  /\ ~stripped.panic
            /\ stripped.start = p
            /\ stripped.end = q
            /\ stripped.r1 = SubSeq(rest1, 1, Len(rest1) - q)
            /\ stripped.r2 = SubSeq(rest2, 1, Len(rest2) - q)
            /\ s1 = SubSeq(s1, 1, p) \o stripped.r1
                       \o SubSeq(s1, Len(s1) - q + 1, Len(s1))
            /\ s2 = SubSeq(s1, 1, p) \o stripped.r2
                       \o SubSeq(s1, Len(s1) - q + 1, Len(s1))
            /\ p + q <= Len(s1)
            /\ p + q <= Len(s2)
            /\ (s1 = <<1, 3, 2, 2>> /\ s2 = <<1, 4, 2>>) =>
                  stripped.r1 = <<3, 2>> /\ stripped.r2 = <<4>>

\* The call on "1a22" and "1b2" returned "a2" and "b".
C35_Witness ==
    /\ spc = "done"
    /\ s1 = <<1, 3, 2, 2>>
    /\ s2 = <<1, 4, 2>>
    /\ stripped = StripOk(<<3, 2>>, <<4>>, 1, 1)

\* ------------------------------------------------ detect_batch_move (C34)
\* A Key is modelled by its path: the files added, and the files deleted,
\* by one commit have different paths.

\* Most files in each of the two lists.
MaxFiles == 2

\* The longest path of a file.
MaxPathLen == 2

FilePaths == Strings(MaxPathLen) \ {<< >>}

\* a.path.cmp(&b.path) is Less: the order of strings, char by char.
RECURSIVE PathLess(_, _)
PathLess(a, b) ==
    IF b = << >> THEN FALSE
    ELSE IF a = << >> THEN TRUE
    ELSE IF Head(a) # Head(b) THEN Head(a) < Head(b)
    ELSE PathLess(Tail(a), Tail(b))

\* v, sorted, with x put in at its place.
RECURSIVE SortInsert(_, _)
SortInsert(v, x) ==
    IF v = << >> THEN <<x>>
    ELSE IF PathLess(x, Head(v)) THEN <<x>> \o v
    ELSE <<Head(v)>> \o SortInsert(Tail(v), x)

\* Variant: the list is left in the order it came in.
SortByPathKeep(v) == v

\* v.sort_unstable_by(|a, b| a.path.cmp(&b.path))
RECURSIVE SortByPath(_)
SortByPath(v) ==
    IF v = << >> THEN << >>
    ELSE SortInsert(SortByPath(SubSeq(v, 1, Len(v) - 1)), v[Len(v)])

\* zip(a, b)
Zip(a, b) ==
    [i \in 1..(IF Len(a) < Len(b) THEN Len(a) ELSE Len(b)) |-> <<a[i], b[i]>>]

\* The (String, String) a pair of paths is stripped to.
StrippedPair(pr) ==
    <<strip_common_prefix_and_suffix(pr[1], pr[2]).r1,
      strip_common_prefix_and_suffix(pr[1], pr[2]).r2>>

\* The HashSet the stripped pairs are collected into.
StrippedPairs(a, b) == {StrippedPair(Zip(a, b)[i]) : i \in 1..Len(Zip(a, b))}

\* The two lists as the call leaves them, and the pairs it returns.
detect_batch_move(a, b) ==
    IF Len(a) # Len(b)
    THEN [added |-> a, deleted |-> b, pairs |-> << >>]
    ELSE LET sa == SortByPath(a)
             sb == SortByPath(b)
         IN  [added |-> sa, deleted |-> sb,
              pairs |-> IF Cardinality(StrippedPairs(sa, sb)) > 1
                        THEN << >>
                        ELSE Zip(sa, sb)]

\* A call of detect_batch_move on any two lists of files.
InitBatch ==
    /\ NoRun
    /\ acc = << >>
    /\ shadow = [c \in Commits |-> NoId]
    /\ overwrote = FALSE
    /\ NoRefsCall
    /\ NoFilesCall
    /\ s1 = << >>
    /\ s2 = << >>
    /\ stripped = << >>
    /\ spc = "idle"
    /\ added_files \in SeqsNoDup(FilePaths, MaxFiles)
    /\ deleted_files \in SeqsNoDup(FilePaths, MaxFiles)
    /\ moved = << >>
    /\ bpc = "call"

DetectBatchMove ==
    /\ bpc = "call"
    /\ added_files' = detect_batch_move(added_files, deleted_files).added
    /\ deleted_files' = detect_batch_move(added_files, deleted_files).deleted
    /\ moved' = detect_batch_move(added_files, deleted_files).pairs
    /\ bpc' = "done"
    /\ UNCHANGED <<pipeline, acc, shadow, overwrote, refsVars, filesVars, s1,
                   s2, stripped, spc>>

NextBatch == DetectBatchMove

SpecBatch == InitBatch /\ [][NextBatch]_vars

\* The paths of S in ascending order.
Ascending(S) ==
    CHOOSE q \in [1..Cardinality(S) -> S] :
        \A i, j \in 1..Cardinality(S) : i < j => PathLess(q[i], q[j])

\* C34: detect_batch_move returns no pair when the two lists differ in
\* length, or when the pairs made of the i-th added and the i-th deleted
\* path in ascending order of the paths do not all strip to the same two
\* rests; otherwise it returns each of these pairs, in this order.
C34_BatchMove ==
    bpc = "done" =>
        LET A == Ascending(Range(added_files))
            D == Ascending(Range(deleted_files))
        IN  IF Len(added_files) # Len(deleted_files)
            THEN moved = << >>
            ELSE IF \E i, j \in 1..Len(A) :
                       StrippedPair(<<A[i], D[i]>>)
                           # StrippedPair(<<A[j], D[j]>>)
                 THEN moved = << >>
                 ELSE /\ Len(moved) = Len(A)
                      /\ \A i \in 1..Len(A) : moved[i] = <<A[i], D[i]>>

\* Two files moved from one directory to another are returned as two pairs
\* in the order of their paths.
C34_Witness ==
    /\ bpc = "done"
    /\ moved = << <<(<<1, 1>>), (<<2, 1>>)>>, <<(<<1, 3>>), (<<2, 3>>)>> >>
====
